---- MODULE Spec2Model ----
(***************************************************************************)
(* A model of the Talc allocator (src/src/lib.rs) on a 64-bit target.      *)
(*                                                                         *)
(* The arena is modelled word by word: mem maps every word-aligned address *)
(* to the value of the word stored there, so tags, boundary size words,    *)
(* list links, the bin array and tag-indirection words are the words the   *)
(* code writes and reads.  Addresses and sizes are in bytes.  Words that   *)
(* the allocator has never written hold Uninit, payload words handed to    *)
(* the user hold UserData; an operation that reads such a word as          *)
(* metadata, or touches memory outside the arena, raises the ub flag.      *)
(***************************************************************************)
EXTENDS Integers, Sequences, FiniteSets, TLC

VARIABLES talc, mem, ub, live, last, pre, init_meta, search, bitmap

vars == <<talc, mem, ub, live, last, pre, init_meta, search, bitmap>>

-----------------------------------------------------------------------------
(* Program constants (64-bit build)                                        *)

WORD_SIZE == 8
ALIGN == 8
WORD_BITS == 64
NODE_SIZE == 2 * WORD_SIZE
TAG_SIZE == WORD_SIZE
MIN_CHUNK_SIZE == NODE_SIZE + WORD_SIZE
BIN_COUNT == WORD_BITS * 2
BIN_ALIGNMENT == 8
BIN_ARRAY_SIZE == WORD_SIZE * BIN_COUNT
AVAIL_SPLIT == 64
NULL == 0

(* Values of words the allocator did not write.                            *)
Uninit == 0 - 1
UserData == 0 - 2

-----------------------------------------------------------------------------
(* Bounds of the model                                                     *)

\* lowest word of any arena handed to the allocator
FloorWord == 4
\* number of payload words above the bin array in the main arena
HeapWords == 8
\* largest number of simultaneously live allocations
MaxLive == 2

ArenaFloor == FloorWord * WORD_SIZE
MainBase == ArenaFloor + 4 * WORD_SIZE
HeaderAcme == MainBase + TAG_SIZE + BIN_ARRAY_SIZE
MainAcme == HeaderAcme + HeapWords * WORD_SIZE
MemLo == ArenaFloor
MemHi == MainAcme + 4 * WORD_SIZE

\* mem is indexed by word number; Addrs are the addresses of its words
WordCount == (MemHi - MemLo) \div WORD_SIZE
Words == 0..(WordCount - 1)
AddrOf(w) == MemLo + w * WORD_SIZE
WordOf(a) == (a - MemLo) \div WORD_SIZE
Addrs == {AddrOf(w) : w \in Words}
IsWordAddr(a) == a % WORD_SIZE = 0 /\ MemLo <= a /\ a < MemHi

Max(a, b) == IF a >= b THEN a ELSE b
Min(a, b) == IF a <= b THEN a ELSE b

-----------------------------------------------------------------------------
(* utils: alignment and chunk helpers                                      *)

align_down(p) == p - (p % ALIGN)
align_up(p) == align_down(p + (ALIGN - 1))
align_up_by(p, align_mask) == (p + align_mask) - ((p + align_mask) % (align_mask + 1))

is_chunk_size(base, acme) == acme - base >= MIN_CHUNK_SIZE

required_acme(alloc_base, size, tag_ptr) ==
    Max(align_up(alloc_base + size), tag_ptr + MIN_CHUNK_SIZE)

RECURSIVE FloorLog2(_)
FloorLog2(n) == IF n <= 1 THEN 0 ELSE 1 + FloorLog2(n \div 2)

\* first size that no longer has a bin of its own
LinearLimit == MIN_CHUNK_SIZE + WORD_BITS * ALIGN

bin_of_size(size) ==
    IF size < MIN_CHUNK_SIZE THEN 0
    ELSE IF size < LinearLimit THEN (size - MIN_CHUNK_SIZE) \div ALIGN
    ELSE Min(BIN_COUNT - 1, WORD_BITS + FloorLog2(size) - FloorLog2(LinearLimit))

-----------------------------------------------------------------------------
(* Span                                                                    *)

SpanEmpty == <<NULL, NULL>>
SpanIsEmpty(s) == s[2] <= s[1]
SpanContains(s, addr) == s[1] <= addr /\ addr < s[2]
SpanContainsSpan(s, other) ==
    SpanIsEmpty(other) \/ (s[1] <= other[1] /\ other[2] <= s[2])
word_align_inward(s) == <<align_up(s[1]), align_down(s[2])>>

-----------------------------------------------------------------------------
(* Tag: acme | ALLOCATED | BELOW_FREE                                      *)

ALLOCATED_FLAG == 1
BELOW_FREE_FLAG == 2

TagNew(acme, below_free) ==
    acme + ALLOCATED_FLAG + (IF below_free THEN BELOW_FREE_FLAG ELSE 0)
TagIsAllocated(w) == w % 2 = 1
TagIsBelowFree(w) == (w \div 2) % 2 = 1
TagAcme(w) == w - (w % 4)

-----------------------------------------------------------------------------
(* Memory access.  A step works on St = [t, m, ub, lim]: the Talc struct,  *)
(* the memory, the undefined-behaviour flag and the span of memory the     *)
(* caller guarantees to be valid during the call.                          *)

St(t, m, u, lim) == [t |-> t, m |-> m, ub |-> u, lim |-> lim]

Accessible(S, a) ==
    /\ IsWordAddr(a)
    /\ S.lim[1] <= a
    /\ a + WORD_SIZE <= S.lim[2]

\* the word at a, or 0 when reading it is undefined
Rd(S, a) == IF Accessible(S, a) /\ S.m[WordOf(a)] >= 0 THEN S.m[WordOf(a)] ELSE 0

\* S after the code has read the word at a
Touch(S, a) ==
    IF Accessible(S, a) /\ S.m[WordOf(a)] >= 0 THEN S ELSE [S EXCEPT !.ub = TRUE]

Wr(S, a, v) ==
    IF Accessible(S, a) THEN [S EXCEPT !.m[WordOf(a)] = v] ELSE [S EXCEPT !.ub = TRUE]

\* a write made only when c holds
WrIf(S, c, a, v) == IF c THEN Wr(S, a, v) ELSE S

-----------------------------------------------------------------------------
(* Availability words are bit vectors: the set of the positions of their   *)
(* set bits.                                                               *)

Bit(b) == {b % WORD_BITS}
Xor(x, y) == (x \ y) \cup (y \ x)
Shr(x, n) == {i - n : i \in {j \in x : j >= n}}
trailing_zeros(x) ==
    IF x = {} THEN WORD_BITS ELSE CHOOSE i \in x : \A j \in x : i <= j

get_bin_ptr(S, bin) == S.t.bins + bin * WORD_SIZE

set_avails(S, b) ==
    IF b < AVAIL_SPLIT
    THEN [S EXCEPT !.t.availability_low = Xor(@, Bit(b))]
    ELSE [S EXCEPT !.t.availability_high = Xor(@, Bit(b - AVAIL_SPLIT))]

\* clear_avails forgotten: the bit of an emptied bin stays set
keep_avails(S, b) == S

clear_avails(S, b) ==
    IF b < AVAIL_SPLIT
    THEN [S EXCEPT !.t.availability_low = Xor(@, Bit(b))]
    ELSE [S EXCEPT !.t.availability_high = Xor(@, Bit(b - AVAIL_SPLIT))]

-----------------------------------------------------------------------------
(* LlistNode: [ prev | next ], prev being the address of the word that     *)
(* points to the node (a bin head or the next word of its predecessor).    *)

NodePrev(n) == n
NodeNext(n) == n + WORD_SIZE

LlistInsert(S, n, head_slot, prev_head) ==
    WrIf(Wr(Wr(Wr(S, NodePrev(n), head_slot), NodeNext(n), prev_head), head_slot, n),
         prev_head # NULL, NodePrev(prev_head), NodeNext(n))

LlistRemove(S, n) ==
    LET prev_slot == Rd(S, NodePrev(n))
        next == Rd(S, NodeNext(n))
    IN  WrIf(Wr(Touch(Touch(S, NodePrev(n)), NodeNext(n)), prev_slot, next),
             next # NULL, NodePrev(next), prev_slot)

\* the nodes of the list starting at head, in list order
RECURSIVE LlistIter(_, _, _)
LlistIter(S, head, fuel) ==
    IF head = NULL \/ fuel = 0 THEN <<>>
    ELSE <<head>> \o LlistIter(S, Rd(S, NodeNext(head)), fuel - 1)

ListFuel == WordCount

-----------------------------------------------------------------------------
(* FreeChunk                                                               *)

size_ptr(base) == base + NODE_SIZE

-----------------------------------------------------------------------------
(* register / deregister / clear_below_free                                *)

\* register without the size word at the high end of the chunk
register_low_size_only(S, base, acme) ==
    LET size == acme - base
        bin == bin_of_size(size)
        bin_ptr == get_bin_ptr(S, bin)
        head == Rd(S, bin_ptr)
        S0 == Touch(S, bin_ptr)
        S1 == IF head = NULL THEN set_avails(S0, bin) ELSE S0
        S2 == LlistInsert(S1, base, bin_ptr, head)
    IN  Wr(S2, size_ptr(base), size)

register(S, base, acme) ==
    LET size == acme - base
        bin == bin_of_size(size)
        bin_ptr == get_bin_ptr(S, bin)
        head == Rd(S, bin_ptr)
        S0 == Touch(S, bin_ptr)
        S1 == IF head = NULL THEN set_avails(S0, bin) ELSE S0
        S2 == LlistInsert(S1, base, bin_ptr, head)
        S3 == Wr(S2, size_ptr(base), size)
    IN  Wr(S3, acme - WORD_SIZE, size)

\* lib.rs 191-193: a bin left empty loses its availability bit
clear_if_empty(S, bin) ==
    IF Rd(S, get_bin_ptr(S, bin)) = NULL
    THEN clear_avails(Touch(S, get_bin_ptr(S, bin)), bin)
    ELSE Touch(S, get_bin_ptr(S, bin))

\* a deregister that leaves the node in its list
deregister_keep_linked(S, node_ptr, bin) == clear_if_empty(S, bin)

deregister(S, node_ptr, bin) == clear_if_empty(LlistRemove(S, node_ptr), bin)

TagSetBelowFree(S, tag_ptr) ==
    LET w == Rd(S, tag_ptr)
    IN  Wr(Touch(S, tag_ptr), tag_ptr, IF TagIsBelowFree(w) THEN w ELSE w + BELOW_FREE_FLAG)

TagClearBelowFree(S, tag_ptr) ==
    LET w == Rd(S, tag_ptr)
    IN  Wr(Touch(S, tag_ptr), tag_ptr, IF TagIsBelowFree(w) THEN w - BELOW_FREE_FLAG ELSE w)

TagSetAcme(S, tag_ptr, acme) ==
    LET w == Rd(S, tag_ptr)
    IN  Wr(Touch(S, tag_ptr), tag_ptr, acme + (w % 4))

\* clear_below_free that never clears is_top_free
clear_tag_only(S, chunk_acme) ==
    IF chunk_acme # S.t.allocatable_acme
    THEN TagClearBelowFree(S, chunk_acme)
    ELSE S

\* clear_below_free that never clears the flag of the tag above
clear_top_only(S, chunk_acme) ==
    IF chunk_acme # S.t.allocatable_acme
    THEN S
    ELSE [S EXCEPT !.t.is_top_free = FALSE]

clear_below_free(S, chunk_acme) ==
    IF chunk_acme # S.t.allocatable_acme
    THEN TagClearBelowFree(S, chunk_acme)
    ELSE [S EXCEPT !.t.is_top_free = FALSE]

-----------------------------------------------------------------------------
(* init / get_allocated_span / extend / truncate                           *)

InitFail(S) ==
    [S EXCEPT !.t.allocatable_base = NULL,
              !.t.allocatable_acme = NULL,
              !.t.is_top_free = FALSE]

\* lib.rs 671-679: the room above the bin array
init_top(S, metadata_acme, acme) ==
    IF is_chunk_size(metadata_acme, acme)
    THEN [register(S, metadata_acme, acme) EXCEPT !.t.is_top_free = TRUE]
    ELSE [S EXCEPT !.t.is_top_free = FALSE]

\* lib.rs 656-664: the bins are initialized to None
init_bins(S, metadata_ptr, metadata_acme) ==
    [S EXCEPT !.m = [w \in Words |->
                        IF metadata_ptr <= AddrOf(w) /\ AddrOf(w) < metadata_acme
                        THEN NULL ELSE S.m[w]],
              !.t.bins = metadata_ptr]

\* lib.rs 642-679: the arena holds the bin array
init_metadata(S, base, acme) ==
    LET tag_ptr == base
        metadata_ptr == align_up_by(tag_ptr + TAG_SIZE, BIN_ALIGNMENT - 1)
        tag_ptr_ptr == align_down(metadata_ptr - ALIGN)
        metadata_acme == metadata_ptr + BIN_ARRAY_SIZE
    IN  init_top(
            init_bins(
                Wr(WrIf([S EXCEPT !.t.allocatable_base = base,
                                  !.t.allocatable_acme = acme],
                        tag_ptr_ptr # tag_ptr, tag_ptr_ptr, tag_ptr),
                   tag_ptr, TagNew(metadata_acme, FALSE)),
                metadata_ptr, metadata_acme),
            metadata_acme, acme)

\* an init that does not check the room for the bin array
init_arena_unchecked(S, aligned_arena) ==
    IF ~SpanIsEmpty(aligned_arena)
    THEN init_metadata(S, aligned_arena[1], aligned_arena[2])
    ELSE InitFail(S)

\* lib.rs 620-687: S has the arena and the cleared availability words
init_arena(S, aligned_arena) ==
    IF /\ ~SpanIsEmpty(aligned_arena)
       /\ aligned_arena[2] - align_up_by(aligned_arena[1] + TAG_SIZE, BIN_ALIGNMENT - 1)
              > BIN_ARRAY_SIZE
    THEN init_metadata(S, aligned_arena[1], aligned_arena[2])
    ELSE InitFail(S)

init(S, arena) ==
    init_arena([S EXCEPT !.t.arena = arena,
                         !.t.availability_low = {},
                         !.t.availability_high = {}],
               word_align_inward(arena))

get_allocated_span(S) ==
    LET base == S.t.allocatable_base
        acme == S.t.allocatable_acme
        top_free_size == Rd(S, acme - WORD_SIZE)
        allocated_acme == IF S.t.is_top_free THEN acme - top_free_size ELSE acme
        bottom_free == ~TagIsAllocated(Rd(S, base))
        free_bottom_size == Rd(S, size_ptr(base))
        allocated_base == IF bottom_free THEN base + free_bottom_size ELSE base
    IN  IF MIN_CHUNK_SIZE > acme - base THEN SpanEmpty
        ELSE <<allocated_base, allocated_acme>>

\* S after the reads of get_allocated_span
TouchAllocatedSpan(S) ==
    LET base == S.t.allocatable_base
        acme == S.t.allocatable_acme
        S1 == IF S.t.is_top_free THEN Touch(S, acme - WORD_SIZE) ELSE S
        S2 == Touch(S1, base)
    IN  IF MIN_CHUNK_SIZE > acme - base THEN S
        ELSE IF ~TagIsAllocated(Rd(S, base)) THEN Touch(S2, size_ptr(base)) ELSE S2

\* lib.rs 755-769: the bottom of the old allocatable span
extend_bottom(S, old_alloc_base) ==
    LET bottom_size == Rd(S, size_ptr(old_alloc_base))
    IN  IF ~TagIsAllocated(Rd(S, old_alloc_base))
        THEN register(deregister(Touch(Touch(S, old_alloc_base), size_ptr(old_alloc_base)),
                                 old_alloc_base, bin_of_size(bottom_size)),
                      S.t.allocatable_base, old_alloc_base + bottom_size)
        ELSE IF old_alloc_base - S.t.allocatable_base > MIN_CHUNK_SIZE
        THEN TagSetBelowFree(register(Touch(S, old_alloc_base),
                                      S.t.allocatable_base, old_alloc_base),
                             old_alloc_base)
        ELSE [Touch(S, old_alloc_base) EXCEPT !.t.allocatable_base = old_alloc_base]

\* lib.rs 741-753: the top of the old allocatable span
extend_top(S, old_alloc_acme) ==
    LET top_size == Rd(S, old_alloc_acme - WORD_SIZE)
        top_base == old_alloc_acme - top_size
    IN  IF S.t.is_top_free
        THEN register(deregister(Touch(S, old_alloc_acme - WORD_SIZE),
                                 top_base, bin_of_size(top_size)),
                      top_base, S.t.allocatable_acme)
        ELSE IF S.t.allocatable_acme - old_alloc_acme > MIN_CHUNK_SIZE
        THEN [register(S, old_alloc_acme, S.t.allocatable_acme)
                 EXCEPT !.t.is_top_free = TRUE]
        ELSE [S EXCEPT !.t.allocatable_acme = old_alloc_acme]

extend(S, new_arena) ==
    IF ~is_chunk_size(S.t.allocatable_base, S.t.allocatable_acme)
    THEN init(S, new_arena)
    ELSE extend_bottom(
             extend_top([S EXCEPT !.t.arena = new_arena,
                                  !.t.allocatable_base = word_align_inward(new_arena)[1],
                                  !.t.allocatable_acme = word_align_inward(new_arena)[2]],
                        S.t.allocatable_acme),
             S.t.allocatable_base)

\* a trim that leaves is_top_free set when it drops the top chunk
truncate_top_trim_keep_flag(S, top_base, new_alloc_acme) ==
    IF is_chunk_size(top_base, new_alloc_acme)
    THEN register([S EXCEPT !.t.allocatable_acme = new_alloc_acme],
                  top_base, new_alloc_acme)
    ELSE [S EXCEPT !.t.allocatable_acme = top_base]

\* lib.rs 848-856: the top free chunk is deregistered; keep what of it is
\* below the new acme
truncate_top_trim(S, top_base, new_alloc_acme) ==
    IF is_chunk_size(top_base, new_alloc_acme)
    THEN register([S EXCEPT !.t.allocatable_acme = new_alloc_acme],
                  top_base, new_alloc_acme)
    ELSE [S EXCEPT !.t.allocatable_acme = top_base, !.t.is_top_free = FALSE]

\* lib.rs 836-857: trim the top
truncate_top(S, new_alloc_acme) ==
    LET top_free_size == Rd(S, S.t.allocatable_acme - WORD_SIZE)
        top_base == S.t.allocatable_acme - top_free_size
    IN  IF new_alloc_acme < S.t.allocatable_acme
        THEN truncate_top_trim(
                 deregister(Touch(S, S.t.allocatable_acme - WORD_SIZE),
                            top_base, bin_of_size(top_free_size)),
                 top_base, new_alloc_acme)
        ELSE S

\* a trim that leaves is_below_free set when it drops the bottom chunk
truncate_bottom_trim_keep_flag(S, new_alloc_base, base_free_chunk_acme) ==
    IF is_chunk_size(new_alloc_base, base_free_chunk_acme)
    THEN register([S EXCEPT !.t.allocatable_base = new_alloc_base],
                  new_alloc_base, base_free_chunk_acme)
    ELSE [S EXCEPT !.t.allocatable_base = base_free_chunk_acme]

\* lib.rs 873-886: the bottom free chunk is deregistered; keep what of it is
\* above the new base
truncate_bottom_trim(S, new_alloc_base, base_free_chunk_acme) ==
    IF is_chunk_size(new_alloc_base, base_free_chunk_acme)
    THEN register([S EXCEPT !.t.allocatable_base = new_alloc_base],
                  new_alloc_base, base_free_chunk_acme)
    ELSE TagClearBelowFree([S EXCEPT !.t.allocatable_base = base_free_chunk_acme],
                           base_free_chunk_acme)

\* lib.rs 864-887: free memory at the bottom of the arena
truncate_bottom(S, new_alloc_base) ==
    LET base_free_size == Rd(S, size_ptr(S.t.allocatable_base))
    IN  IF new_alloc_base > S.t.allocatable_base
        THEN truncate_bottom_trim(
                 deregister(Touch(S, size_ptr(S.t.allocatable_base)),
                            S.t.allocatable_base, bin_of_size(base_free_size)),
                 new_alloc_base, S.t.allocatable_base + base_free_size)
        ELSE S

truncate(S, new_arena) ==
    LET new_alloc_span == word_align_inward(new_arena)
    IN  IF S.t.allocatable_base = NULL \/ S.t.allocatable_acme = NULL
        THEN init(TouchAllocatedSpan(S), new_arena)
        ELSE IF ~(~SpanIsEmpty(new_alloc_span)
                  /\ is_chunk_size(new_alloc_span[1], new_alloc_span[2]))
        THEN init(TouchAllocatedSpan(S), new_arena)
        ELSE truncate_bottom(
                 truncate_top([TouchAllocatedSpan(S) EXCEPT !.t.arena = new_arena],
                              new_alloc_span[2]),
                 new_alloc_span[1])

-----------------------------------------------------------------------------
(* malloc                                                                  *)

required_chunk_size(size) ==
    IF size <= MIN_CHUNK_SIZE - TAG_SIZE
    THEN MIN_CHUNK_SIZE
    ELSE align_up(size + TAG_SIZE)

NoBin == 0 - 1

\* a next_bin that gives up when the low availability word has no bin left
next_bin_low_only(S, bin) ==
    IF bin < WORD_BITS
    THEN LET shifted_avails == Shr(S.t.availability_low, bin)
         IN  IF shifted_avails # {} THEN bin + trailing_zeros(shifted_avails)
             ELSE NoBin
    ELSE IF bin < BIN_COUNT
    THEN LET shifted_avails == Shr(S.t.availability_high, bin - AVAIL_SPLIT)
         IN  IF shifted_avails # {} THEN bin + trailing_zeros(shifted_avails)
             ELSE NoBin
    ELSE NoBin

next_bin(S, bin) ==
    IF bin < WORD_BITS
    THEN LET shifted_avails == Shr(S.t.availability_low, bin)
         IN  IF shifted_avails # {} THEN bin + trailing_zeros(shifted_avails)
             ELSE IF S.t.availability_high # {}
                  THEN trailing_zeros(S.t.availability_high) + AVAIL_SPLIT
                  ELSE NoBin
    ELSE IF bin < BIN_COUNT
    THEN LET shifted_avails == Shr(S.t.availability_high, bin - AVAIL_SPLIT)
         IN  IF shifted_avails # {} THEN bin + trailing_zeros(shifted_avails)
             ELSE NoBin
    ELSE NoBin

NoChunk(S) ==
    [found |-> FALSE, S |-> S, chunk_base |-> NULL, chunk_acme |-> NULL,
     alloc_base |-> NULL]

\* the user pointer taken right above the tag whatever the alignment
alloc_base_unaligned(node, align) == node + TAG_SIZE

\* the user pointer inside the free chunk at node (lib.rs 283, 302)
alloc_base_of(node, align) ==
    IF align <= ALIGN
    THEN node + TAG_SIZE
    ELSE align_up_by(node + TAG_SIZE, align - 1)

\* the size check alone: the fit of the aligned pointer is not checked
sufficient_by_size(S, node, size, align) ==
    Rd(S, size_ptr(node)) >= required_chunk_size(size)

\* does the free chunk at node satisfy the request (lib.rs 277, 300-306)
Sufficient(S, node, size, align) ==
    LET chunk_size == Rd(S, size_ptr(node))
    IN  /\ chunk_size >= required_chunk_size(size)
        /\ \/ align <= ALIGN
           \/ alloc_base_of(node, align) + size <= node + chunk_size

\* the walk over one bin list: the first sufficient chunk wins
RECURSIVE ScanBin(_, _, _, _, _, _)
ScanBin(S, nodes, i, bin, size, align) ==
    IF i > Len(nodes) THEN NoChunk(S)
    ELSE LET node == nodes[i]
             S1 == Touch(S, size_ptr(node))
             chunk_size == Rd(S, size_ptr(node))
         IN  IF Sufficient(S, node, size, align)
             THEN [found |-> TRUE,
                   S |-> deregister(S1, node, bin),
                   chunk_base |-> node,
                   chunk_acme |-> node + chunk_size,
                   alloc_base |-> alloc_base_of(node, align)]
             ELSE ScanBin(S1, nodes, i + 1, bin, size, align)

\* the loop over the bins: r is what the walk over bin found (lib.rs 288, 313)
RECURSIVE ScanBins(_, _, _, _)
\* the search given up after the first bin that has chunks
scan_first_bin_only(r, bin, size, align) == r

ScanNext(r, bin, size, align) ==
    IF r.found THEN r
    ELSE ScanBins(r.S, next_bin(r.S, bin + 1), size, align)

ScanBins(S, bin, size, align) ==
    IF bin = NoBin THEN NoChunk(S)
    ELSE ScanNext(ScanBin(Touch(S, get_bin_ptr(S, bin)),
                          LlistIter(S, Rd(S, get_bin_ptr(S, bin)), ListFuel),
                          1, bin, size, align),
                  bin, size, align)

get_sufficient_chunk(S, size, align) ==
    ScanBins(S, next_bin(S, bin_of_size(required_chunk_size(size))), size, align)

\* lib.rs 241-252: the space above the required allocation span
MallocAbove(S, tag_ptr, req_acme, chunk_acme, is_below_free) ==
    IF is_chunk_size(req_acme, chunk_acme)
    THEN Wr(register(S, req_acme, chunk_acme), tag_ptr,
            TagNew(req_acme, is_below_free))
    ELSE Wr(clear_below_free(S, chunk_acme), tag_ptr,
            TagNew(chunk_acme, is_below_free))

\* a carving that never writes the tag pointer below the allocation
MallocCarve_no_indirection(S, chunk_base, chunk_acme, alloc_base, size) ==
    LET pre_alloc_ptr == align_down(alloc_base - TAG_SIZE)
        tag_ptr0 == Min(chunk_acme - MIN_CHUNK_SIZE, pre_alloc_ptr)
        is_below_free == is_chunk_size(chunk_base, tag_ptr0)
        tag_ptr == IF is_below_free THEN tag_ptr0 ELSE chunk_base
    IN  MallocAbove(IF is_below_free THEN register(S, chunk_base, tag_ptr0) ELSE S,
                    tag_ptr,
                    required_acme(alloc_base, size, tag_ptr),
                    chunk_acme,
                    is_below_free)

\* lib.rs 223-256: carve the chunk found by get_sufficient_chunk
MallocCarve(S, chunk_base, chunk_acme, alloc_base, size) ==
    LET pre_alloc_ptr == align_down(alloc_base - TAG_SIZE)
        tag_ptr0 == Min(chunk_acme - MIN_CHUNK_SIZE, pre_alloc_ptr)
        is_below_free == is_chunk_size(chunk_base, tag_ptr0)
        tag_ptr == IF is_below_free THEN tag_ptr0 ELSE chunk_base
    IN  MallocAbove(WrIf(IF is_below_free THEN register(S, chunk_base, tag_ptr0) ELSE S,
                         tag_ptr # pre_alloc_ptr, pre_alloc_ptr, tag_ptr),
                    tag_ptr,
                    required_acme(alloc_base, size, tag_ptr),
                    chunk_acme,
                    is_below_free)

\* the OOM handler installed by Talc::new(): lib.rs 67-69
alloc_error(S) == [ok |-> FALSE, S |-> S]

\* the memory a user handler obtains at each call
ExtendStep == 2 * WORD_SIZE

\* a handler given to with_oom_handler that extends the arena upwards by
\* ExtendStep while memory is left above it, and fails when none is
oom_extend(S) ==
    LET new_arena == <<S.t.arena[1], Min(S.t.arena[2] + ExtendStep, MemHi)>>
    IN  IF SpanIsEmpty(S.t.arena) \/ new_arena = S.t.arena
        THEN [ok |-> FALSE, S |-> S]
        ELSE [ok |-> TRUE, S |-> extend([S EXCEPT !.lim = new_arena], new_arena)]

\* a handler given to with_oom_handler that returns Ok and leaves the heap
\* as it is
oom_return_ok(S) == [ok |-> TRUE, S |-> S]

\* lib.rs 219: the call through the oom_handler field
oom_handler(S, size, align) ==
    IF S.t.oom_handler = "alloc_error" THEN alloc_error(S)
    ELSE IF S.t.oom_handler = "oom_extend" THEN oom_extend(S)
    ELSE oom_return_ok(S)

\* [ok, S, ptr, oom, herr, spin]: the result of malloc, the state it leaves,
\* the number of times the OOM handler ran, whether the handler failed, and
\* whether the loop of lib.rs 216-221 never ends
RECURSIVE MallocLoop(_, _, _, _)
\* what is left of malloc after the single retry: r is what the second
\* search returned
MallocSecond(r, size, calls) ==
    IF r.found
    THEN [ok |-> TRUE,
          S |-> MallocCarve(r.S, r.chunk_base, r.chunk_acme, r.alloc_base, size),
          ptr |-> r.alloc_base, oom |-> calls + 1, herr |-> FALSE, spin |-> FALSE]
    ELSE [ok |-> FALSE, S |-> r.S, ptr |-> NULL, oom |-> calls + 1,
          herr |-> FALSE, spin |-> FALSE]

\* a malloc that runs the handler once and retries the search once
MallocRetrySingle(h, r, size, align, calls) ==
    IF ~h.ok
    THEN [ok |-> FALSE, S |-> h.S, ptr |-> NULL, oom |-> calls + 1,
          herr |-> TRUE, spin |-> FALSE]
    ELSE MallocSecond(get_sufficient_chunk(h.S, size, align), size, calls)

\* lib.rs 219: h is what the OOM handler returned after the search that left
\* r.  A handler that returns Ok and leaves the allocator and its memory as
\* they were makes the next turn of the loop the same as this one: the loop
\* does not end.
MallocRetry(h, r, size, align, calls) ==
    IF ~h.ok
    THEN [ok |-> FALSE, S |-> h.S, ptr |-> NULL, oom |-> calls + 1,
          herr |-> TRUE, spin |-> FALSE]
    ELSE IF h.S = r.S
    THEN [ok |-> FALSE, S |-> h.S, ptr |-> NULL, oom |-> calls + 1,
          herr |-> FALSE, spin |-> TRUE]
    ELSE MallocLoop(h.S, size, align, calls + 1)

\* lib.rs 217-256: r is what get_sufficient_chunk returned
MallocFound(r, size, align, calls) ==
    IF r.found
    THEN [ok |-> TRUE,
          S |-> MallocCarve(r.S, r.chunk_base, r.chunk_acme, r.alloc_base, size),
          ptr |-> r.alloc_base,
          oom |-> calls,
          herr |-> FALSE,
          spin |-> FALSE]
    ELSE MallocRetry(oom_handler(r.S, size, align), r, size, align, calls)

MallocLoop(S, size, align, calls) ==
    MallocFound(get_sufficient_chunk(S, size, align), size, align, calls)

malloc(S, size, align) == MallocLoop(S, size, align, 0)

-----------------------------------------------------------------------------
(* free                                                                    *)

\* <<chunk_ptr, tag>> of an allocation pointer
chunk_ptr_from_alloc_ptr(S, ptr) ==
    LET tag_or_tag_ptr == Rd(S, align_down(ptr - TAG_SIZE))
    IN  IF TagIsAllocated(tag_or_tag_ptr)
        THEN <<align_down(ptr - TAG_SIZE), tag_or_tag_ptr>>
        ELSE <<tag_or_tag_ptr, Rd(S, tag_or_tag_ptr)>>

TouchTag(S, ptr) ==
    LET S1 == Touch(S, align_down(ptr - TAG_SIZE))
        w == Rd(S, align_down(ptr - TAG_SIZE))
    IN  IF TagIsAllocated(w) THEN S1 ELSE Touch(S1, w)

\* TRUE when the word at chunk_acme is an allocated chunk's tag
AboveIsAllocated(S, chunk_acme) == TagIsAllocated(Rd(S, chunk_acme))

\* free that does not flag the allocated chunk above
free_above_unflagged(S0, chunk_acme0) ==
    LET above_chunk_size == Rd(S0, size_ptr(chunk_acme0))
    IN  IF chunk_acme0 # S0.t.allocatable_acme
        THEN IF AboveIsAllocated(S0, chunk_acme0)
             THEN [S |-> Touch(S0, chunk_acme0), acme |-> chunk_acme0]
             ELSE [S |-> deregister(Touch(Touch(S0, chunk_acme0), size_ptr(chunk_acme0)),
                                    chunk_acme0, bin_of_size(above_chunk_size)),
                   acme |-> chunk_acme0 + above_chunk_size]
        ELSE [S |-> [S0 EXCEPT !.t.is_top_free = TRUE], acme |-> chunk_acme0]

\* free that does not merge with the free chunk above
free_above_unmerged(S0, chunk_acme0) ==
    IF chunk_acme0 # S0.t.allocatable_acme
    THEN IF AboveIsAllocated(S0, chunk_acme0)
         THEN [S |-> TagSetBelowFree(S0, chunk_acme0), acme |-> chunk_acme0]
         ELSE [S |-> Touch(S0, chunk_acme0), acme |-> chunk_acme0]
    ELSE [S |-> [S0 EXCEPT !.t.is_top_free = TRUE], acme |-> chunk_acme0]

\* free that does not record that the chunk at the top has become free
free_above_top_unset(S0, chunk_acme0) ==
    LET above_chunk_size == Rd(S0, size_ptr(chunk_acme0))
    IN  IF chunk_acme0 # S0.t.allocatable_acme
        THEN IF AboveIsAllocated(S0, chunk_acme0)
             THEN [S |-> TagSetBelowFree(S0, chunk_acme0), acme |-> chunk_acme0]
             ELSE [S |-> deregister(Touch(Touch(S0, chunk_acme0), size_ptr(chunk_acme0)),
                                    chunk_acme0, bin_of_size(above_chunk_size)),
                   acme |-> chunk_acme0 + above_chunk_size]
        ELSE [S |-> S0, acme |-> chunk_acme0]

\* lib.rs 356-370: the chunk above; [S, acme]
free_above(S0, chunk_acme0) ==
    LET above_chunk_size == Rd(S0, size_ptr(chunk_acme0))
    IN  IF chunk_acme0 # S0.t.allocatable_acme
        THEN IF AboveIsAllocated(S0, chunk_acme0)
             THEN [S |-> TagSetBelowFree(S0, chunk_acme0), acme |-> chunk_acme0]
             ELSE [S |-> deregister(Touch(Touch(S0, chunk_acme0), size_ptr(chunk_acme0)),
                                    chunk_acme0, bin_of_size(above_chunk_size)),
                   acme |-> chunk_acme0 + above_chunk_size]
        ELSE [S |-> [S0 EXCEPT !.t.is_top_free = TRUE], acme |-> chunk_acme0]

\* free that never merges with the free chunk below
free_below_unmerged(S, chunk_ptr0, tag) == [S |-> S, ptr |-> chunk_ptr0]

\* lib.rs 372-379: the chunk below; [S, ptr]
free_below(S, chunk_ptr0, tag) ==
    LET low_chunk_size == Rd(S, chunk_ptr0 - WORD_SIZE)
    IN  IF TagIsBelowFree(tag)
        THEN [S |-> deregister(Touch(S, chunk_ptr0 - WORD_SIZE),
                               chunk_ptr0 - low_chunk_size,
                               bin_of_size(low_chunk_size)),
              ptr |-> chunk_ptr0 - low_chunk_size]
        ELSE [S |-> S, ptr |-> chunk_ptr0]

\* lib.rs 381: down is what the step below left, chunk_acme the acme the
\* step above found
free_register(down, chunk_acme) == register(down.S, down.ptr, chunk_acme)

\* lib.rs 372-381: up is what the step above left
free_lower(up, chunk_ptr, tag) ==
    free_register(free_below(up.S, chunk_ptr, tag), up.acme)

free(S, ptr) ==
    LET ct == chunk_ptr_from_alloc_ptr(S, ptr)
    IN  free_lower(free_above(TouchTag(S, ptr), TagAcme(ct[2])), ct[1], ct[2])

-----------------------------------------------------------------------------
(* grow / shrink                                                           *)

\* a grow in place that keeps all of the chunk above
grow_in_place_absorb_all(S, chunk_ptr, new_req_acme, above_acme) ==
    TagSetAcme(clear_below_free(S, above_acme), chunk_ptr, above_acme)

\* lib.rs 427-435: the chunk above is deregistered; keep what of it is not
\* needed
grow_in_place(S, chunk_ptr, new_req_acme, above_acme) ==
    IF is_chunk_size(new_req_acme, above_acme)
    THEN TagSetAcme(register(S, new_req_acme, above_acme), chunk_ptr, new_req_acme)
    ELSE TagSetAcme(clear_below_free(S, above_acme), chunk_ptr, above_acme)

\* lib.rs 452: the words that hold the size bytes at src, copied to dst
RECURSIVE copy_nonoverlapping(_, _, _, _)
copy_nonoverlapping(S, dst, src, size) ==
    IF size <= 0 THEN S
    ELSE copy_nonoverlapping(
             IF Accessible(S, src) /\ Accessible(S, dst)
             THEN [S EXCEPT !.m[WordOf(dst)] = S.m[WordOf(src)]]
             ELSE [S EXCEPT !.ub = TRUE],
             dst + WORD_SIZE, src + WORD_SIZE, size - WORD_SIZE)

\* a grow that copies the bytes after it has freed the chunk they are in
grow_realloc_copy_after_free(m, ptr, size) ==
    IF m.ok
    THEN [ok |-> TRUE, S |-> copy_nonoverlapping(free(m.S, ptr), m.ptr, ptr, size),
          ptr |-> m.ptr, moved |-> TRUE, spin |-> FALSE]
    ELSE [ok |-> FALSE, S |-> m.S, ptr |-> NULL, moved |-> FALSE, spin |-> m.spin]

\* a grow that has released the allocation when malloc fails
grow_realloc_release_first(m, ptr, size) ==
    IF m.ok
    THEN [ok |-> TRUE, S |-> free(copy_nonoverlapping(m.S, m.ptr, ptr, size), ptr),
          ptr |-> m.ptr, moved |-> TRUE, spin |-> FALSE]
    ELSE [ok |-> FALSE, S |-> free(m.S, ptr), ptr |-> NULL, moved |-> FALSE,
          spin |-> m.spin]

\* lib.rs 450-455: m is what malloc returned
grow_realloc(m, ptr, size) ==
    IF m.ok
    THEN [ok |-> TRUE, S |-> free(copy_nonoverlapping(m.S, m.ptr, ptr, size), ptr),
          ptr |-> m.ptr, moved |-> TRUE, spin |-> FALSE]
    ELSE [ok |-> FALSE, S |-> m.S, ptr |-> NULL, moved |-> FALSE, spin |-> m.spin]

\* [ok, S, ptr, moved, spin]
grow(S, ptr, size, align, new_size) ==
    LET ct == chunk_ptr_from_alloc_ptr(S, ptr)
        chunk_ptr == ct[1]
        chunk_acme == TagAcme(ct[2])
        new_req_acme == Max(align_up(ptr + new_size), chunk_ptr + MIN_CHUNK_SIZE)
        above_size == Rd(S, size_ptr(chunk_acme))
        above_acme == chunk_acme + above_size
        at_top == chunk_acme = S.t.allocatable_acme
    IN  IF new_req_acme <= chunk_acme
        THEN [ok |-> TRUE, S |-> TouchTag(S, ptr), ptr |-> ptr, moved |-> FALSE,
              spin |-> FALSE]
        ELSE IF /\ ~at_top
                /\ ~AboveIsAllocated(S, chunk_acme)
                /\ above_acme >= new_req_acme
        THEN [ok |-> TRUE,
              S |-> grow_in_place(
                        deregister(Touch(Touch(TouchTag(S, ptr), chunk_acme),
                                         size_ptr(chunk_acme)),
                                   chunk_acme, bin_of_size(above_size)),
                        chunk_ptr, new_req_acme, above_acme),
              ptr |-> ptr, moved |-> FALSE, spin |-> FALSE]
        ELSE grow_realloc(malloc(IF at_top
                                 THEN TouchTag(S, ptr)
                                 ELSE Touch(TouchTag(S, ptr), chunk_acme),
                                 new_size, align),
                          ptr, size)

\* lib.rs 488-501: the chunk above the released tail; [S, acme]
shrink_above(S0, chunk_acme0) ==
    LET above_size == Rd(S0, size_ptr(chunk_acme0))
    IN  IF chunk_acme0 # S0.t.allocatable_acme
        THEN IF AboveIsAllocated(S0, chunk_acme0)
             THEN [S |-> TagSetBelowFree(S0, chunk_acme0), acme |-> chunk_acme0]
             ELSE [S |-> deregister(Touch(Touch(S0, chunk_acme0), size_ptr(chunk_acme0)),
                                    chunk_acme0, bin_of_size(above_size)),
                   acme |-> chunk_acme0 + above_size]
        ELSE [S |-> [S0 EXCEPT !.t.is_top_free = TRUE], acme |-> chunk_acme0]

\* lib.rs 503-505: up is what the step above left
shrink_register(up, chunk_ptr, new_req_acme) ==
    TagSetAcme(register(up.S, new_req_acme, up.acme), chunk_ptr, new_req_acme)

\* a shrink that measures the required acme from the tag, not from ptr
shrink_from_chunk_base(S, ptr, size, new_size) ==
    LET ct == chunk_ptr_from_alloc_ptr(S, ptr)
        chunk_ptr == ct[1]
        chunk_acme0 == TagAcme(ct[2])
        new_req_acme == Max(align_up(chunk_ptr + TAG_SIZE + size), chunk_ptr + MIN_CHUNK_SIZE)
    IN  IF is_chunk_size(new_req_acme, chunk_acme0)
        THEN shrink_register(shrink_above(TouchTag(S, ptr), chunk_acme0),
                             chunk_ptr, new_req_acme)
        ELSE TouchTag(S, ptr)

\* new_size goes unused: the required acme is computed from layout.size()
shrink(S, ptr, size, new_size) ==
    LET ct == chunk_ptr_from_alloc_ptr(S, ptr)
        chunk_ptr == ct[1]
        chunk_acme0 == TagAcme(ct[2])
        new_req_acme == Max(align_up(ptr + size), chunk_ptr + MIN_CHUNK_SIZE)
    IN  IF is_chunk_size(new_req_acme, chunk_acme0)
        THEN shrink_register(shrink_above(TouchTag(S, ptr), chunk_acme0),
                             chunk_ptr, new_req_acme)
        ELSE TouchTag(S, ptr)

-----------------------------------------------------------------------------
(* Inputs                                                                  *)

\* the arenas handed to init, extend and truncate
Arenas ==
    { <<MainBase, HeaderAcme - 2 * WORD_SIZE>>,
      <<MainBase, HeaderAcme>>,
      <<MainBase, HeaderAcme + 2 * WORD_SIZE>>,
      <<NULL, MainAcme + 3>>,
      <<MainBase - 3, MainAcme + 3>>,
      <<MainBase - 3, MainAcme + 3 * WORD_SIZE + 3>>,
      <<MainBase - 3, MainAcme + 4 * WORD_SIZE>>,
      <<MainBase - 3 * WORD_SIZE, MainAcme + 3>>,
      <<ArenaFloor, MainAcme + 3>> }

\* <<size, align>> of the requests
Layouts == { <<1, 1>>, <<40, 8>>, <<8, 32>> }

\* the new sizes passed to grow and to shrink
GrowSizes == { 48 }
ShrinkSizes == { 8 }

-----------------------------------------------------------------------------
(* Observations of a state                                                 *)

Initialized(S) == S.t.allocatable_base # NULL

BinSet == 0..(BIN_COUNT - 1)

BinNodes(S, b) ==
    IF Initialized(S) THEN LlistIter(S, Rd(S, get_bin_ptr(S, b)), ListFuel) ELSE <<>>

\* the chunks of bin b: [base, size, bin], size being the low size word
BinChunks(S, b) ==
    LET nodes == BinNodes(S, b)
    IN  { [base |-> nodes[i], size |-> Rd(S, size_ptr(nodes[i])), bin |-> b] :
          i \in 1..Len(nodes) }

\* the registered free chunks
FreeChunks(S) ==
    IF Initialized(S)
    THEN LET first == WordOf(S.t.bins)
         IN  UNION { BinChunks(S, b) : b \in {x \in BinSet : S.m[first + x] # NULL} }
    ELSE {}

\* lib.rs 929-970: the checks of scan_for_errors on bin b
ScanBin_for_errors(S, b) ==
    LET nodes == LlistIter(S, Rd(S, get_bin_ptr(S, b)), ListFuel)
        avail == IF b < AVAIL_SPLIT
                 THEN b \in S.t.availability_low
                 ELSE (b - AVAIL_SPLIT) \in S.t.availability_high
    IN  IF Len(nodes) = 0 THEN ~avail
        ELSE /\ avail
             /\ \A i \in 1..Len(nodes) :
                   LET low_size == Rd(S, size_ptr(nodes[i]))
                       high_size == Rd(S, nodes[i] + low_size - TAG_SIZE)
                       upper_tag == Rd(S, nodes[i] + low_size)
                   IN  /\ low_size = high_size
                       /\ nodes[i] + low_size <= S.t.allocatable_acme
                       /\ IF nodes[i] + low_size < S.t.allocatable_acme
                          THEN TagIsAllocated(upper_tag) /\ TagIsBelowFree(upper_tag)
                          ELSE S.t.is_top_free

\* lib.rs 915-987: TRUE when every assertion of scan_for_errors passes
scan_for_errors(S) ==
    /\ S.t.allocatable_acme >= S.t.allocatable_base
    /\ SpanContainsSpan(S.t.arena, <<S.t.allocatable_base, S.t.allocatable_acme>>)
    /\ IF S.t.bins # NULL
       THEN /\ S.t.allocatable_base # NULL
            /\ S.t.allocatable_acme # NULL
            /\ \A b \in BinSet : ScanBin_for_errors(S, b)
       ELSE /\ S.t.allocatable_base = NULL
            /\ S.t.allocatable_acme = NULL

HeaderTagPtr(S) == S.t.bins - TAG_SIZE

\* the tag addresses of the allocated chunks: the bin array's and the live ones'
AllocTagPtrs(S, lv) ==
    IF Initialized(S)
    THEN {HeaderTagPtr(S)} \cup { chunk_ptr_from_alloc_ptr(S, a.ptr)[1] : a \in lv }
    ELSE {}

\* the heap metadata, bin lists taken as sets
Meta(S, lv) ==
    [ base |-> S.t.allocatable_base,
      acme |-> S.t.allocatable_acme,
      is_top_free |-> S.t.is_top_free,
      availability_low |-> S.t.availability_low,
      availability_high |-> S.t.availability_high,
      free |-> FreeChunks(S),
      tags |-> { <<p, Rd(S, p)>> : p \in AllocTagPtrs(S, lv) } ]

NoMeta ==
    [ base |-> NULL, acme |-> NULL, is_top_free |-> FALSE,
      availability_low |-> {}, availability_high |-> {}, free |-> {}, tags |-> {} ]

-----------------------------------------------------------------------------
(* The state machine                                                       *)

\* the state a call starts in; lim is the memory valid during the call
Cur(lim) == St(talc, mem, ub, lim)

\* the last call: its name, whether it succeeded, the pointer malloc or grow
\* returned, the extent [base, acme) that the chunk given to free, grow or
\* shrink had before the call, the number
\* of times malloc ran the OOM handler, whether the handler failed, whether
\* the call never returns, whether grow moved the allocation, and whether the
\* call panicked
NoLast ==
    [op |-> "new", ok |-> TRUE, ptr |-> NULL, base |-> NULL, acme |-> NULL,
     oom |-> 0, herr |-> FALSE, spin |-> FALSE, moved |-> FALSE, panic |-> FALSE]
Did(op, ok, ptr) == [NoLast EXCEPT !.op = op, !.ok = ok, !.ptr = ptr]
Freed(S, ptr) ==
    LET ct == chunk_ptr_from_alloc_ptr(S, ptr)
    IN  [Did("free", TRUE, NULL) EXCEPT !.base = ct[1], !.acme = TagAcme(ct[2])]

\* the handlers an allocator is constructed with
OomHandlers == {"alloc_error", "oom_extend", "oom_return_ok"}

NoSnapshot == [valid |-> FALSE, meta |-> NoMeta]

\* the metadata init left, valid until the arena changes; used: a malloc has
\* succeeded since
NoInitMeta == [valid |-> FALSE, used |-> FALSE, meta |-> NoMeta]

\* a search over the bins: the argument of the last call of next_bin, what it
\* returned, the bin the search visited before that call (NoBin for the first
\* call of a search) and the number of calls the search has made
NoSearch == [bin |-> 0, found |-> NoBin, prev |-> NoBin, calls |-> 0]

\* the target the availability words are kept for: the number of bits of a
\* usize and whether the build checks debug assertions and arithmetic
\* overflow (both on in the dev profile, both off in the release profile);
\* heads: the bins whose list holds a chunk, tracked where the bin array is
\* not in mem.  The allocator of Spec and SpecOom is the 64-bit one and its
\* bin array is in mem.
NoBitmap == [bits |-> WORD_BITS, debug |-> FALSE, heads |-> {}]

\* Talc::new() for h = "alloc_error", Talc::with_oom_handler(h) otherwise
InitWith(h) ==
    /\ talc = [ oom_handler |-> h,
                arena |-> SpanEmpty,
                allocatable_base |-> NULL,
                allocatable_acme |-> NULL,
                is_top_free |-> TRUE,
                availability_low |-> {},
                availability_high |-> {},
                bins |-> NULL ]
    /\ mem = [w \in Words |-> Uninit]
    /\ ub = FALSE
    /\ live = {}
    /\ last = NoLast
    /\ pre = NoSnapshot
    /\ init_meta = NoInitMeta
    /\ search = NoSearch
    /\ bitmap = NoBitmap

Init == InitWith("alloc_error")

InitOom == \E h \in OomHandlers : InitWith(h)

\* no call is in progress for ever, no call has had undefined behaviour or
\* has panicked
Running == ~ub /\ ~last.spin /\ ~last.panic

\* the words whose content the allocator may still read: the bin array, the
\* tag and the tag-indirection word of every allocated chunk, and the list
\* node and the two size words of every registered free chunk
MetaWords(S, lv) ==
    IF ~Initialized(S) THEN {}
    ELSE AllocTagPtrs(S, lv)
         \cup { align_down(a.ptr - TAG_SIZE) : a \in lv }
         \cup UNION { { c.base, c.base + WORD_SIZE, size_ptr(c.base),
                        c.base + c.size - WORD_SIZE } : c \in FreeChunks(S) }

InPayload(lv, a) == \E x \in lv : align_down(x.ptr) <= a /\ a < x.ptr + x.size

\* the words outside the bin array
HeapWordSet(S) ==
    IF Initialized(S)
    THEN (0..(WordOf(S.t.bins) - 1)) \cup (WordOf(S.t.bins + BIN_ARRAY_SIZE)..(WordCount - 1))
    ELSE Words

\* The content of every other word is dead: it is forgotten when a call
\* returns, so that a later read of it raises ub instead of finding the
\* stale value.  Payload words hold whatever the user stored.
Forget(S, lv) ==
    LET keep == MetaWords(S, lv)
    IN  [w \in HeapWordSet(S) |->
            IF InPayload(lv, AddrOf(w)) THEN UserData
            ELSE IF AddrOf(w) \in keep THEN S.m[w]
            ELSE Uninit] @@ S.m

Commit(S, lv) ==
    /\ talc' = S.t
    /\ mem' = Forget(S, lv)
    /\ ub' = S.ub
    /\ live' = lv
    /\ search' = search
    /\ bitmap' = bitmap

\* init has returned, leaving S
InitReturn(S) ==
    /\ Commit(S, live)
    /\ last' = Did("init", TRUE, NULL)
    /\ pre' = NoSnapshot
    /\ init_meta' = IF Initialized(S)
                    THEN [valid |-> TRUE, used |-> FALSE, meta |-> Meta(S, {})]
                    ELSE NoInitMeta

\* a call panics in state S, or returns leaving S
Panics(S) == [panic |-> TRUE, S |-> S]
Returns(S) == [panic |-> FALSE, S |-> S]

\* lib.rs 618: init with its assertion
InitCall(S, arena) ==
    IF SpanContains(arena, NULL) THEN Panics(S)
    ELSE Returns(init(S, arena))

\* lib.rs 713-736: extend with its assertions and its unreachable!() arm,
\* which the assignment of the new arena precedes
ExtendCall(S, new_arena) ==
    IF ~SpanContainsSpan(new_arena, S.t.arena) THEN Panics(S)
    ELSE IF SpanContains(new_arena, NULL) THEN Panics(S)
    ELSE IF /\ is_chunk_size(S.t.allocatable_base, S.t.allocatable_acme)
            /\ \/ SpanIsEmpty(word_align_inward(new_arena))
               \/ word_align_inward(new_arena)[2] - word_align_inward(new_arena)[1]
                      < MIN_CHUNK_SIZE
    THEN Panics([S EXCEPT !.t.arena = new_arena])
    ELSE Returns(extend(S, new_arena))

\* lib.rs 799-806: truncate with its assertions
TruncateCall(S, new_arena) ==
    IF ~SpanContainsSpan(S.t.arena, new_arena) THEN Panics(S)
    ELSE IF ~SpanContainsSpan(word_align_inward(new_arena), get_allocated_span(S))
    THEN Panics(TouchAllocatedSpan(S))
    ELSE Returns(truncate(S, new_arena))

\* the call op has panicked, leaving S: it has written no word of the arena
PanicReturn(op, S) ==
    /\ talc' = S.t
    /\ mem' = S.m
    /\ ub' = S.ub
    /\ live' = live
    /\ search' = search
    /\ bitmap' = bitmap
    /\ last' = [Did(op, FALSE, NULL) EXCEPT !.panic = TRUE]
    /\ pre' = NoSnapshot
    /\ init_meta' = NoInitMeta

InitDone(r) == IF r.panic THEN PanicReturn("init", r.S) ELSE InitReturn(r.S)

\* init on an allocator that has no live allocation
InitOp(arena) ==
    /\ Running
    /\ live = {}
    /\ InitDone(InitCall(Cur(arena), arena))

\* malloc has returned r
MallocReturn(r, size, align) ==
    /\ Commit(r.S, IF r.ok
                    THEN live \cup {[ptr |-> r.ptr, size |-> size, align |-> align]}
                    ELSE live)
    /\ last' = [Did("malloc", r.ok, r.ptr) EXCEPT
                    !.oom = r.oom, !.herr = r.herr, !.spin = r.spin]
    /\ init_meta' = IF r.S.t.arena = talc.arena
                    THEN [init_meta EXCEPT !.used = @ \/ (init_meta.valid /\ r.ok)]
                    ELSE NoInitMeta
    /\ pre' = IF r.ok /\ r.oom = 0
              THEN [valid |-> TRUE, meta |-> Meta(Cur(talc.arena), live)]
              ELSE NoSnapshot

MallocOp(size, align) ==
    /\ Running
    /\ Cardinality(live) < MaxLive
    /\ MallocReturn(malloc(Cur(talc.arena), size, align), size, align)

FreeOp(a) ==
    /\ Running
    /\ a \in live
    /\ Commit(free(Cur(talc.arena), a.ptr), live \ {a})
    /\ last' = Freed(Cur(talc.arena), a.ptr)
    /\ pre' = IF pre.valid /\ last.op = "malloc" /\ last.ptr = a.ptr
              THEN pre
              ELSE NoSnapshot
    /\ init_meta' = init_meta

\* grow has returned r
GrowReturn(r, a, new_size) ==
    /\ Commit(r.S, IF r.ok
                    THEN (live \ {a}) \cup
                         {[ptr |-> r.ptr, size |-> new_size, align |-> a.align]}
                    ELSE live)
    /\ last' = [Freed(Cur(talc.arena), a.ptr) EXCEPT
                    !.op = "grow", !.ok = r.ok, !.ptr = r.ptr,
                    !.moved = r.moved, !.spin = r.spin]
    /\ pre' = NoSnapshot
    /\ init_meta' = IF r.S.t.arena = talc.arena THEN init_meta ELSE NoInitMeta

GrowOp(a, new_size) ==
    /\ Running
    /\ a \in live
    /\ new_size >= a.size
    /\ GrowReturn(grow(Cur(talc.arena), a.ptr, a.size, a.align, new_size), a, new_size)

ShrinkOp(a, new_size) ==
    /\ Running
    /\ a \in live
    /\ new_size # 0
    /\ new_size <= a.size
    /\ Commit(shrink(Cur(talc.arena), a.ptr, a.size, new_size),
              (live \ {a}) \cup {[ptr |-> a.ptr, size |-> new_size, align |-> a.align]})
    /\ last' = [Freed(Cur(talc.arena), a.ptr) EXCEPT !.op = "shrink"]
    /\ pre' = NoSnapshot
    /\ init_meta' = init_meta

\* extend has returned, leaving S
ExtendReturn(S) ==
    /\ Commit(S, live)
    /\ last' = Did("extend", TRUE, NULL)
    /\ pre' = NoSnapshot
    /\ init_meta' = NoInitMeta

ExtendDone(r) == IF r.panic THEN PanicReturn("extend", r.S) ELSE ExtendReturn(r.S)

ExtendOp(new_arena) ==
    /\ Running
    /\ new_arena # talc.arena
    /\ ExtendDone(ExtendCall(Cur(IF SpanContainsSpan(new_arena, talc.arena)
                                  THEN new_arena ELSE talc.arena),
                              new_arena))

\* truncate has returned, leaving S
TruncateReturn(S) ==
    /\ Commit(S, live)
    /\ last' = Did("truncate", TRUE, NULL)
    /\ pre' = NoSnapshot
    /\ init_meta' = NoInitMeta

TruncateDone(r) ==
    IF r.panic THEN PanicReturn("truncate", r.S) ELSE TruncateReturn(r.S)

TruncateOp(new_arena) ==
    /\ Running
    /\ new_arena # talc.arena
    /\ TruncateDone(TruncateCall(Cur(talc.arena), new_arena))

Next ==
    \/ \E arena \in Arenas : InitOp(arena)
    \/ \E l \in Layouts : MallocOp(l[1], l[2])
    \/ \E a \in live : FreeOp(a)
    \/ \E a \in live, n \in GrowSizes : GrowOp(a, n)
    \/ \E a \in live, n \in ShrinkSizes : ShrinkOp(a, n)
    \/ \E arena \in Arenas : ExtendOp(arena)
    \/ \E arena \in Arenas : TruncateOp(arena)

Spec == Init /\ [][Next]_vars

\* the allocator constructed with any of the handlers
SpecOom == InitOom /\ [][Next]_vars

\* no operation reads a word the allocator did not write or leaves the arena
MemorySafe == ~ub

-----------------------------------------------------------------------------
(* next_bin on its own: the two availability words take the values of      *)
(* AvailWords, and the bins are searched as get_sufficient_chunk searches   *)
(* them.  next_bin reads nothing but the two words.                         *)

\* values of an availability word, as the set of its set bits
AvailWords ==
    { {}, {0}, {WORD_BITS - 1}, {0, WORD_BITS - 1}, {3, 17}, {1, 2, 40, 62} }

InitNextBin ==
    \E lo \in AvailWords, hi \in AvailWords :
        /\ talc = [ oom_handler |-> "alloc_error",
                    arena |-> SpanEmpty,
                    allocatable_base |-> NULL,
                    allocatable_acme |-> NULL,
                    is_top_free |-> TRUE,
                    availability_low |-> lo,
                    availability_high |-> hi,
                    bins |-> NULL ]
        /\ mem = [w \in Words |-> Uninit]
        /\ ub = FALSE
        /\ live = {}
        /\ last = NoLast
        /\ pre = NoSnapshot
        /\ init_meta = NoInitMeta
        /\ search = NoSearch
        /\ bitmap = NoBitmap

\* lib.rs 266: the first call of a search, self.next_bin(bin)
NextBinFirst(bin) ==
    /\ search' = [bin |-> bin, found |-> next_bin(Cur(talc.arena), bin),
                  prev |-> NoBin, calls |-> 1]
    /\ UNCHANGED <<talc, mem, ub, live, last, pre, init_meta, bitmap>>

\* lib.rs 288, 311: the search goes on, bin = self.next_bin(bin + 1)
NextBinAgain ==
    /\ search.calls > 0
    /\ search.found # NoBin
    /\ search' = [bin |-> search.found + 1,
                  found |-> next_bin(Cur(talc.arena), search.found + 1),
                  prev |-> search.found, calls |-> search.calls + 1]
    /\ UNCHANGED <<talc, mem, ub, live, last, pre, init_meta, bitmap>>

NextBinStep ==
    \/ \E bin \in 0..BIN_COUNT : NextBinFirst(bin)
    \/ NextBinAgain

SpecNextBin == InitNextBin /\ [][NextBinStep]_vars

------------------------------------------------------------------------------
(* The availability words on a target of T.bits bits.  usize::BITS and      *)
(* BIN_COUNT follow the target, the literal 64 of set_avails, clear_avails  *)
(* and next_bin does not.  A shift by T.bits or more, and a subtraction     *)
(* below zero, panic in a build that checks overflow; in a build that does  *)
(* not, the subtraction wraps and the shift takes its amount modulo T.bits. *)

\* the word widths of the targets
Widths == {32, 64}

\* lib.rs 61: BIN_COUNT on the target
BinCountOn(T) == T.bits * 2

\* the amount n of a shift, or the result n of a subtraction, is not one the
\* target can represent
Overflows(T, n) == n < 0 \/ n >= T.bits

\* the amount a shift by n takes where overflow is not checked: n modulo
\* T.bits, also for the n below zero that has wrapped to 2^T.bits + n
ShiftBy(T, n) == n % T.bits

\* 1 << n
BitOn(T, n) == {ShiftBy(T, n)}

\* a call on the availability words has panicked, or has returned leaving
\* the words low and high; over: a shift amount reached T.bits or a
\* subtraction wrapped on the way
AvailPanics(A) == [panic |-> TRUE, over |-> TRUE, low |-> A.low, high |-> A.high]
AvailReturns(over, low, high) ==
    [panic |-> FALSE, over |-> over, low |-> low, high |-> high]

\* lib.rs 131-141
set_avails_on(T, A, b) ==
    IF T.debug /\ b >= BinCountOn(T) THEN AvailPanics(A)
    ELSE IF b < AVAIL_SPLIT
    THEN IF T.debug /\ (Overflows(T, b) \/ BitOn(T, b) \subseteq A.low)
         THEN AvailPanics(A)
         ELSE AvailReturns(Overflows(T, b), Xor(A.low, BitOn(T, b)), A.high)
    ELSE IF T.debug /\ (Overflows(T, b - AVAIL_SPLIT)
                        \/ BitOn(T, b - AVAIL_SPLIT) \subseteq A.high)
         THEN AvailPanics(A)
         ELSE AvailReturns(Overflows(T, b - AVAIL_SPLIT), A.low,
                           Xor(A.high, BitOn(T, b - AVAIL_SPLIT)))

\* lib.rs 145-157: the word is written before its assertion
clear_avails_on(T, A, b) ==
    IF T.debug /\ b >= BinCountOn(T) THEN AvailPanics(A)
    ELSE IF b < AVAIL_SPLIT
    THEN IF T.debug /\ Overflows(T, b) THEN AvailPanics(A)
         ELSE IF T.debug /\ BitOn(T, b) \subseteq Xor(A.low, BitOn(T, b))
         THEN AvailPanics([A EXCEPT !.low = Xor(@, BitOn(T, b))])
         ELSE AvailReturns(Overflows(T, b), Xor(A.low, BitOn(T, b)), A.high)
    ELSE IF T.debug /\ Overflows(T, b - AVAIL_SPLIT) THEN AvailPanics(A)
         ELSE IF T.debug /\ BitOn(T, b - AVAIL_SPLIT)
                                \subseteq Xor(A.high, BitOn(T, b - AVAIL_SPLIT))
         THEN AvailPanics([A EXCEPT !.high = Xor(@, BitOn(T, b - AVAIL_SPLIT))])
         ELSE AvailReturns(Overflows(T, b - AVAIL_SPLIT), A.low,
                           Xor(A.high, BitOn(T, b - AVAIL_SPLIT)))

\* what next_bin returned: found is the bin, NoBin for None
BinPanics == [panic |-> TRUE, over |-> TRUE, found |-> NoBin]
BinReturns(over, found) == [panic |-> FALSE, over |-> over, found |-> found]

\* Some(bin + shifted_avails.trailing_zeros()) or None
BinAbove(over, bin, shifted_avails) ==
    IF shifted_avails # {}
    THEN BinReturns(over, bin + trailing_zeros(shifted_avails))
    ELSE BinReturns(over, NoBin)

\* lib.rs 319-344
next_bin_on(T, A, bin) ==
    IF bin < T.bits
    THEN IF Shr(A.low, bin) # {}
         THEN BinAbove(FALSE, bin, Shr(A.low, bin))
         ELSE IF A.high # {}
         THEN BinReturns(FALSE, trailing_zeros(A.high) + AVAIL_SPLIT)
         ELSE BinReturns(FALSE, NoBin)
    ELSE IF bin < BinCountOn(T)
    THEN IF T.debug /\ Overflows(T, bin - AVAIL_SPLIT) THEN BinPanics
         ELSE BinAbove(Overflows(T, bin - AVAIL_SPLIT), bin,
                       Shr(A.high, ShiftBy(T, bin - AVAIL_SPLIT)))
    ELSE BinReturns(FALSE, NoBin)

\* the bins the calls are made for: the first and the last bins of either
\* half of the bins of the target, and the bins next to the literal 64
TriedBins(T) ==
    { b \in {0, 1, T.bits - 1, T.bits, T.bits + 1, AVAIL_SPLIT - 1,
             AVAIL_SPLIT, BinCountOn(T) - 1} : b < BinCountOn(T) }

\* the availability words of the allocator
AvailNow == [low |-> talc.availability_low, high |-> talc.availability_high]

\* Talc::new() built for a target
InitBitmap ==
    \E bits \in Widths, debug \in BOOLEAN :
        /\ talc = [ oom_handler |-> "alloc_error",
                    arena |-> SpanEmpty,
                    allocatable_base |-> NULL,
                    allocatable_acme |-> NULL,
                    is_top_free |-> TRUE,
                    availability_low |-> {},
                    availability_high |-> {},
                    bins |-> NULL ]
        /\ mem = [w \in Words |-> Uninit]
        /\ ub = FALSE
        /\ live = {}
        /\ last = NoLast
        /\ pre = NoSnapshot
        /\ init_meta = NoInitMeta
        /\ search = NoSearch
        /\ bitmap = [bits |-> bits, debug |-> debug, heads |-> {}]

\* a call op on the availability words has returned r, or has panicked
AvailDone(op, r, heads) ==
    /\ talc' = [talc EXCEPT !.availability_low = r.low,
                            !.availability_high = r.high]
    /\ last' = [Did(op, ~r.panic, NULL) EXCEPT !.panic = r.panic]
    /\ bitmap' = [bitmap EXCEPT !.heads = IF r.panic THEN @ ELSE heads]
    /\ UNCHANGED <<mem, ub, live, pre, init_meta, search>>

\* lib.rs 170-172: register puts a chunk in the empty bin b
SetAvails(b) ==
    /\ ~last.panic
    /\ b \notin bitmap.heads
    /\ AvailDone("set_avails", set_avails_on(bitmap, AvailNow, b),
                 bitmap.heads \cup {b})

\* lib.rs 191-193: deregister takes the last chunk out of bin b
ClearAvails(b) ==
    /\ ~last.panic
    /\ b \in bitmap.heads
    /\ AvailDone("clear_avails", clear_avails_on(bitmap, AvailNow, b),
                 bitmap.heads \ {b})

\* next_bin has returned r, or has panicked
BinDone(bin, r) ==
    /\ search' = [bin |-> bin, found |-> r.found, prev |-> NoBin, calls |-> 1]
    /\ last' = [Did("next_bin", ~r.panic, NULL) EXCEPT !.panic = r.panic]
    /\ UNCHANGED <<talc, mem, ub, live, pre, init_meta, bitmap>>

\* lib.rs 266, 288: self.next_bin(bin)
NextBinOn(bin) ==
    /\ ~last.panic
    /\ BinDone(bin, next_bin_on(bitmap, AvailNow, bin))

BitmapStep ==
    \/ \E b \in TriedBins(bitmap) : SetAvails(b)
    \/ \E b \in TriedBins(bitmap) : ClearAvails(b)
    \/ \E bin \in TriedBins(bitmap) \cup {BinCountOn(bitmap)} : NextBinOn(bin)

\* the availability words of an allocator built for any of the targets
SpecBitmap == InitBitmap /\ [][BitmapStep]_vars

-----------------------------------------------------------------------------
(* The heap as the claims see it                                           *)

\* the current state, every word of the arena readable
Now == St(talc, mem, ub, talc.arena)

Free == FreeChunks(Now)
FreeAcme(c) == c.base + c.size

\* the allocated chunks: [base, acme, below_free] read from their tags
TagChunk(p) ==
    [base |-> p, acme |-> TagAcme(Rd(Now, p)), below_free |-> TagIsBelowFree(Rd(Now, p))]
Allocated == { TagChunk(p) : p \in AllocTagPtrs(Now, live) }

\* the chunk of a live allocation
ChunkOf(a) == TagChunk(chunk_ptr_from_alloc_ptr(Now, a.ptr)[1])
HeaderChunk == TagChunk(HeaderTagPtr(Now))

IsFreeBase(p) == \E c \in Free : c.base = p
IsFreeAcme(p) == \E c \in Free : FreeAcme(c) = p
IsAllocBase(p) == \E c \in Allocated : c.base = p

\* every chunk as [base, acme, free]
Chunks ==
    { [base |-> c.base, acme |-> FreeAcme(c), free |-> TRUE] : c \in Free }
    \cup { [base |-> c.base, acme |-> c.acme, free |-> FALSE] : c \in Allocated }

\* the number of chunks met walking up from p, chunk by chunk, when the walk
\* ends exactly at allocatable_acme; -1 when it meets a gap, a chunk smaller
\* than MIN_CHUNK_SIZE, or runs past the end
RECURSIVE Walk(_, _)
Walk(p, n) ==
    IF p = talc.allocatable_acme THEN n
    ELSE IF p > talc.allocatable_acme \/ n > WordCount THEN 0 - 1
    ELSE LET here == {c \in Chunks : c.base = p}
         IN  IF Cardinality(here) # 1 THEN 0 - 1
             ELSE LET c == CHOOSE x \in here : TRUE
                  IN  IF c.acme - c.base < MIN_CHUNK_SIZE THEN 0 - 1
                      ELSE Walk(c.acme, n + 1)

Tiled == Walk(talc.allocatable_base, 0) = Cardinality(Chunks)

AvailBit(b) ==
    IF b < WORD_BITS
    THEN b \in talc.availability_low
    ELSE (b - WORD_BITS) \in talc.availability_high

BinHead(b) == Rd(Now, get_bin_ptr(Now, b))

Overlap(b1, a1, b2, a2) == b1 < a2 /\ b2 < a1

-----------------------------------------------------------------------------
(* Claims                                                                  *)

\* C1: after every public operation, no two address-adjacent chunks of the
\* allocatable sub-span are both registered free chunks.
C1_NoAdjacentFree ==
    Initialized(Now) =>
        \A c \in Free, d \in Free : FreeAcme(c) # d.base

\* a free has just merged the released chunk with the free chunks on both
\* of its sides, while another allocation stays live
C1_Witness ==
    /\ last.op = "free"
    /\ live # {}
    /\ \E c \in Free : c.base < last.base /\ last.acme < FreeAcme(c)

\* C2: after every public operation, the allocatable sub-span is exactly
\* covered, without gap or overlap, by the bin-array chunk, the allocated
\* chunks and the registered free chunks, each of at least MIN_CHUNK_SIZE.
C2_Tiled == Initialized(Now) => Tiled

\* C3: the byte ranges of the live allocations are pairwise disjoint,
\* disjoint from the bin-array chunk and from every registered free chunk,
\* and each lies inside its own allocated chunk above the tag word.
C3_LiveDisjoint ==
    /\ \A a \in live :
          /\ ChunkOf(a).base + TAG_SIZE <= a.ptr
          /\ a.ptr + a.size <= ChunkOf(a).acme
          /\ \A c \in Free : ~Overlap(a.ptr, a.ptr + a.size, c.base, FreeAcme(c))
          /\ ~Overlap(a.ptr, a.ptr + a.size, HeaderChunk.base, HeaderChunk.acme)
    /\ \A a \in live, b \in live :
          a.ptr # b.ptr => ~Overlap(a.ptr, a.ptr + a.size, b.ptr, b.ptr + b.size)

\* two allocations are live, one of them over-aligned, beside a free chunk
C3_Witness ==
    /\ Cardinality(live) = 2
    /\ \E a \in live : a.align > ALIGN
    /\ Free # {}

\* C4: every pointer returned by a successful malloc(layout) is aligned to
\* max(layout.align(), ALIGN) and lies in
\* [allocatable_base + TAG_SIZE, allocatable_acme - layout.size()].
C4_MallocPointer ==
    \A l \in Layouts :
        LET r == malloc(Now, l[1], l[2])
        IN  r.ok =>
              /\ r.ptr % Max(l[2], ALIGN) = 0
              /\ r.S.t.allocatable_base + TAG_SIZE <= r.ptr
              /\ r.ptr <= r.S.t.allocatable_acme - l[1]

\* malloc has just returned an over-aligned pointer whose tag does not sit
\* in the word below it
C4_Witness ==
    /\ last.op = "malloc"
    /\ last.ok
    /\ \E a \in live :
          /\ a.ptr = last.ptr
          /\ a.align > ALIGN
          /\ ChunkOf(a).base # a.ptr - TAG_SIZE

\* C5: after every public operation, the availability bit of bin b is set
\* if and only if the list of bin b is not empty.
C5_AvailIffNonEmpty ==
    IF Initialized(Now)
    THEN \A b \in BinSet : AvailBit(b) <=> BinHead(b) # NULL
    ELSE talc.availability_low = {} /\ talc.availability_high = {}

\* two bins hold chunks
C5_Witness ==
    /\ Initialized(Now)
    /\ Cardinality({b \in BinSet : BinHead(b) # NULL}) >= 2

\* C6: on an initialized allocator is_top_free holds if and only if the
\* chunk ending at allocatable_acme is a registered free chunk; so the
\* chunk of a live allocation that ends there finds is_top_free false.
C6_TopFree ==
    Initialized(Now) =>
        /\ talc.is_top_free <=> IsFreeAcme(talc.allocatable_acme)
        /\ \A a \in live :
              ChunkOf(a).acme = talc.allocatable_acme => ~talc.is_top_free

\* a live allocation reaches the top of the allocatable span
C6_Witness ==
    /\ Initialized(Now)
    /\ last.op \in {"malloc", "grow"}
    /\ \E a \in live : ChunkOf(a).acme = talc.allocatable_acme

\* C7: the is_below_free bit of every allocated chunk above the bottom of
\* the allocatable span is set if and only if a registered free chunk ends
\* at its base; every registered free chunk that ends below
\* allocatable_acme is followed by an allocated tag with the bit set.
C7_BelowFree ==
    Initialized(Now) =>
        /\ \A c \in Allocated :
              c.base # talc.allocatable_base =>
                  (c.below_free <=> IsFreeAcme(c.base))
        /\ \A f \in Free :
              FreeAcme(f) < talc.allocatable_acme =>
                  /\ TagIsAllocated(Rd(Now, FreeAcme(f)))
                  /\ TagIsBelowFree(Rd(Now, FreeAcme(f)))

\* a live allocation sits right above a free chunk, another does not
C7_Witness ==
    /\ Initialized(Now)
    /\ \E a \in live : ChunkOf(a).below_free
    /\ \E a \in live : ~ChunkOf(a).below_free

\* C8 as stated: the is_below_free bit of an allocated chunk tells whether
\* its UPPER neighbour is free.
C8_AsStated ==
    Initialized(Now) =>
        \A c \in Allocated :
            c.acme < talc.allocatable_acme =>
                (c.below_free <=> IsFreeBase(c.acme))

\* C8 amended: for every chunk, free or allocated, whose upper neighbour is
\* an allocated chunk, the upper neighbour's is_below_free bit is set if and
\* only if the chunk itself is free.
C8_Amended ==
    Initialized(Now) =>
        \A x \in Chunks, u \in Allocated :
            x.acme = u.base => (u.below_free <=> x.free)

\* an allocated chunk has a free chunk above it and an allocated one below
C8_Witness ==
    /\ Initialized(Now)
    /\ \E c \in Allocated :
          /\ IsFreeBase(c.acme)
          /\ ~c.below_free
          /\ \E x \in Allocated : x.acme = c.base

\* the next chunk boundary above p
Boundaries ==
    { c.base : c \in Chunks } \cup {talc.allocatable_acme}
NextBoundary(p) ==
    LET above == {q \in Boundaries : q > p}
    IN  IF above = {} THEN NULL ELSE CHOOSE q \in above : \A x \in above : q <= x

\* C9: the low and the high size word of every registered free chunk are
\* equal, and equal to the extent of the chunk up to the next chunk or the
\* end of the allocatable span.
C9_SizeWords ==
    Initialized(Now) =>
        \A c \in Free :
            /\ mem[WordOf(FreeAcme(c) - WORD_SIZE)] = c.size
            /\ NextBoundary(c.base) = FreeAcme(c)

\* a free chunk lies below a live allocation, whose free would read its
\* high size word
C9_Witness ==
    /\ Initialized(Now)
    /\ \E c \in Free, a \in live : FreeAcme(c) = ChunkOf(a).base

\* C10: malloc without the OOM handler followed at once by free of the
\* returned pointer leaves the heap metadata as before the malloc: the
\* allocatable span, is_top_free, the availability bits, the free chunks
\* with their bins, and the tags of the allocated chunks.
C10_MallocFree ==
    (last.op = "free" /\ pre.valid) => Meta(Now, live) = pre.meta

\* the free undid a malloc made while another allocation was live
C10_Witness ==
    /\ last.op = "free"
    /\ pre.valid
    /\ live # {}
    /\ Cardinality(Free) >= 2

\* the bins whose availability bit is set
AvailBins == {b \in BinSet : AvailBit(b)}

\* C11: on a heap that init has set up and that has not been extended or
\* truncated since, whenever no allocation is live the heap metadata equals
\* what init left; and once allocations have been made and all of them
\* freed (after any malloc, grow, shrink and free, in any order), the heap is
\* the bin-array chunk followed by exactly one free chunk that covers the
\* rest of the allocatable span, is_top_free is true and exactly one
\* availability bit is set.
C11_BackToInit ==
    (init_meta.valid /\ live = {}) =>
        /\ Meta(Now, {}) = init_meta.meta
        /\ init_meta.used =>
              /\ HeaderChunk.base = talc.allocatable_base
              /\ Free = { [base |-> HeaderChunk.acme,
                           size |-> talc.allocatable_acme - HeaderChunk.acme,
                           bin |-> bin_of_size(talc.allocatable_acme - HeaderChunk.acme)] }
              /\ talc.is_top_free
              /\ Cardinality(AvailBins) = 1

\* the last of the allocations has just been freed, and its chunk lay
\* between two chunks that were already free
C11_Witness ==
    /\ init_meta.valid
    /\ init_meta.used
    /\ live = {}
    /\ last.op = "free"
    /\ HeaderChunk.acme < last.base
    /\ last.acme < talc.allocatable_acme

\* the registered free chunk c can hold size bytes aligned to align
Holds(c, size, align) ==
    /\ c.size >= required_chunk_size(size)
    /\ align_up_by(c.base + TAG_SIZE, Max(align, ALIGN) - 1) + size <= FreeAcme(c)

CanHold(size, align) == \E c \in Free : Holds(c, size, align)

\* C12: malloc(layout) returns AllocError if and only if no registered free
\* chunk can hold the layout and the OOM handler returns an error; the
\* handler runs if and only if no registered free chunk can hold the layout;
\* with the default handler malloc succeeds exactly when some registered
\* free chunk can hold the layout, and it fails on an allocator that is not
\* initialized or has no free chunk.
C12_AllocErrorIff ==
    \A l \in Layouts :
        LET r == malloc(Now, l[1], l[2])
        IN  /\ (~r.ok /\ ~r.spin) <=> (~CanHold(l[1], l[2]) /\ r.herr)
            /\ (r.oom = 0) <=> CanHold(l[1], l[2])
            /\ talc.oom_handler = "alloc_error" =>
                  /\ r.ok <=> CanHold(l[1], l[2])
                  /\ (~Initialized(Now) \/ Free = {}) => ~r.ok

\* malloc has just returned AllocError although chunks are free: none of
\* them can hold the layout
C12_Witness ==
    /\ last.op = "malloc"
    /\ ~last.ok
    /\ last.herr
    /\ Cardinality(Free) >= 2

\* C13 as stated: within one malloc call the OOM handler runs at most once
\* and the search is retried at most once, so that malloc terminates
\* whatever the handler.
C13_AsStated ==
    last.op = "malloc" => (last.oom <= 1 /\ ~last.spin)

\* C13 amended: within one malloc call the OOM handler runs after every
\* search that finds no chunk and the search is retried after every Ok of
\* the handler: malloc returns AllocError only when the handler has failed,
\* it does not return exactly when the handler returns Ok leaving the heap
\* as it is while no chunk can hold the layout, and with the default
\* handler the handler runs at most once.
C13_Amended ==
    \A l \in Layouts :
        LET r == malloc(Now, l[1], l[2])
        IN  /\ (~r.ok /\ ~r.spin) => r.herr
            /\ r.spin <=> (talc.oom_handler = "oom_return_ok" /\ ~CanHold(l[1], l[2]))
            /\ r.ok => ~r.spin
            /\ talc.oom_handler = "alloc_error" => r.oom <= 1

\* malloc has just returned a pointer after the handler ran twice
C13_Witness ==
    /\ last.op = "malloc"
    /\ last.ok
    /\ last.oom >= 2

\* malloc has just returned a pointer after the handler extended the arena
AfterHandlerExtend ==
    /\ last.op = "malloc"
    /\ last.ok
    /\ last.oom >= 1
    /\ talc.oom_handler = "oom_extend"

\* the pointer malloc has just returned is that of a live allocation, aligned
\* and inside its chunk
LastPointerValid ==
    \E a \in live :
        /\ a.ptr = last.ptr
        /\ a.ptr % Max(a.align, ALIGN) = 0
        /\ ChunkOf(a).base + TAG_SIZE <= a.ptr
        /\ a.ptr + a.size <= ChunkOf(a).acme
        /\ ChunkOf(a).acme <= talc.allocatable_acme

\* C14: when malloc finds no sufficient chunk and the OOM handler extends
\* the arena so that a sufficient chunk becomes available and returns Ok,
\* malloc returns a valid pointer and the heap invariants hold when it
\* returns: tiling, coalescing, availability bits, is_top_free and
\* is_below_free.
C14_HandlerExtend ==
    AfterHandlerExtend =>
        /\ LastPointerValid
        /\ C3_LiveDisjoint
        /\ Tiled
        /\ C1_NoAdjacentFree
        /\ C5_AvailIffNonEmpty
        /\ C6_TopFree
        /\ C7_BelowFree

\* the allocator and every word of memory are in S as they are now
Untouched(S) == S.t = talc /\ S.m = mem /\ S.ub = ub

\* C15: when malloc or grow returns AllocError, the OOM handler having
\* failed without touching the heap, the allocator and every word of the
\* arena are what they were before the call; after a failed grow the
\* allocation is still found at the same pointer, in the same chunk.
C15_ErrorLeavesHeap ==
    /\ \A l \in Layouts :
          LET r == malloc(Now, l[1], l[2])
          IN  (~r.ok /\ r.herr /\ r.oom = 1) => Untouched(r.S)
    /\ \A a \in live, n \in GrowSizes :
          n >= a.size =>
              LET g == grow(Now, a.ptr, a.size, a.align, n)
              IN  (~g.ok /\ ~g.spin) =>
                      /\ Untouched(g.S)
                      /\ chunk_ptr_from_alloc_ptr(g.S, a.ptr) =
                             chunk_ptr_from_alloc_ptr(Now, a.ptr)

\* a grow has just returned AllocError while chunks are free, none of them
\* large enough
C15_Witness ==
    /\ last.op = "grow"
    /\ ~last.ok
    /\ Free # {}
    /\ live # {}

\* the acme grow and shrink require of the chunk of a for n bytes
NewReqAcme(a, n) == Max(align_up(a.ptr + n), ChunkOf(a).base + MIN_CHUNK_SIZE)

\* the free chunks that start where the chunk of a ends
FreeAbove(a) ==
    IF ChunkOf(a).acme = talc.allocatable_acme THEN {}
    ELSE {f \in Free : f.base = ChunkOf(a).acme}

\* the chunk of the allocation at ptr, read in S
ChunkIn(S, ptr) ==
    [base |-> chunk_ptr_from_alloc_ptr(S, ptr)[1],
     acme |-> TagAcme(chunk_ptr_from_alloc_ptr(S, ptr)[2])]

\* the flag that tells whether the chunk ending at acme is free is clear in S
FlagAboveClear(S, acme) ==
    IF acme = S.t.allocatable_acme
    THEN ~S.t.is_top_free
    ELSE ~TagIsBelowFree(Rd(S, acme))

\* the tag-indirection word of a, when it has one, is in S what it is now
SameIndirection(a, S) ==
    align_down(a.ptr - TAG_SIZE) # ChunkOf(a).base =>
        S.m[WordOf(align_down(a.ptr - TAG_SIZE))] = mem[WordOf(align_down(a.ptr - TAG_SIZE))]

\* what C16 says of the state g that grow(a, n) leaves
GrowsInPlace(a, n, g) ==
    /\ g.ok
    /\ g.ptr = a.ptr
    /\ ~g.moved
    /\ ChunkIn(g.S, a.ptr).base = ChunkOf(a).base
    /\ SameIndirection(a, g.S)
    /\ ChunkIn(g.S, a.ptr).acme >= align_up(a.ptr + n)
    /\ NewReqAcme(a, n) <= ChunkOf(a).acme => Untouched(g.S)
    /\ NewReqAcme(a, n) > ChunkOf(a).acme =>
          \A f \in FreeAbove(a) :
              IF FreeAcme(f) - NewReqAcme(a, n) >= MIN_CHUNK_SIZE
              THEN /\ ChunkIn(g.S, a.ptr).acme = NewReqAcme(a, n)
                   /\ \E x \in FreeChunks(g.S) :
                         /\ x.base = NewReqAcme(a, n)
                         /\ x.size = FreeAcme(f) - NewReqAcme(a, n)
              ELSE /\ ChunkIn(g.S, a.ptr).acme = FreeAcme(f)
                   /\ FlagAboveClear(g.S, FreeAcme(f))

\* C16: grow(ptr, old_layout, new_size), the chunk reaching new_req_acme =
\* max(align_up(ptr + new_size), chunk_base + MIN_CHUNK_SIZE) already or its
\* upper neighbour being free and ending at or above new_req_acme, returns
\* ptr, leaves the base of the chunk and the place of its tag as they were
\* and the chunk ending at or above align_up(ptr + new_size); what is left
\* of the absorbed neighbour is registered free when it is MIN_CHUNK_SIZE or
\* more, and otherwise it is absorbed and the flag of the chunk above (or
\* is_top_free) is cleared.
C16_GrowInPlace ==
    \A a \in live, n \in GrowSizes :
        (/\ n >= a.size
         /\ \/ NewReqAcme(a, n) <= ChunkOf(a).acme
            \/ \E f \in FreeAbove(a) : FreeAcme(f) >= NewReqAcme(a, n))
        => GrowsInPlace(a, n, grow(Now, a.ptr, a.size, a.align, n))

\* grow has just extended a chunk in place into the free chunk above it and
\* registered what was left
C16_Witness ==
    /\ last.op = "grow"
    /\ last.ok
    /\ ~last.moved
    /\ \E a \in live :
          /\ ChunkOf(a).base = last.base
          /\ ChunkOf(a).acme > last.acme
          /\ IsFreeBase(ChunkOf(a).acme)

\* grow(a, n) can be served in place
InPlace(a, n) ==
    \/ NewReqAcme(a, n) <= ChunkOf(a).acme
    \/ \E f \in FreeAbove(a) : FreeAcme(f) >= NewReqAcme(a, n)

\* the offsets of the words that hold the first size bytes of a payload
PayloadOffsets(size) == {k \in 0..(size - 1) : k % WORD_SIZE = 0}

\* what C17 says of the state g that grow(a, n) leaves
GrowsByRealloc(a, n, g) ==
    /\ g.ok
    /\ g.moved
    /\ g.ptr # a.ptr
    /\ ~Overlap(ChunkIn(g.S, g.ptr).base, ChunkIn(g.S, g.ptr).acme,
                ChunkOf(a).base, ChunkOf(a).acme)
    /\ ChunkIn(g.S, g.ptr).base + TAG_SIZE <= g.ptr
    /\ g.ptr + n <= ChunkIn(g.S, g.ptr).acme
    /\ \E x \in FreeChunks(g.S) :
          x.base <= ChunkOf(a).base /\ ChunkOf(a).acme <= x.base + x.size
    /\ \A x \in FreeChunks(g.S), y \in FreeChunks(g.S) : x.base + x.size # y.base
    /\ \A k \in PayloadOffsets(a.size) :
          g.S.m[WordOf(g.ptr + k)] = mem[WordOf(a.ptr + k)]

\* C17: a grow that cannot be served in place (the chunk ends at the top of
\* the allocatable span, or its upper neighbour is allocated or too small)
\* while a sufficient chunk exists elsewhere returns a pointer other than
\* the input; the new chunk was taken while the old one was still allocated
\* (they do not overlap), the old chunk is free and coalesced when grow
\* returns, and the first old_layout.size() bytes at the new pointer are
\* the old contents.
C17_GrowRealloc ==
    \A a \in live, n \in GrowSizes :
        (n >= a.size /\ ~InPlace(a, n) /\ CanHold(n, a.align))
        => GrowsByRealloc(a, n, grow(Now, a.ptr, a.size, a.align, n))

\* grow has just moved an allocation whose upper neighbour is allocated: the
\* allocation is live at the new pointer and the chunk it left is free
C17_Witness ==
    /\ last.op = "grow"
    /\ last.ok
    /\ last.moved
    /\ \E a \in live : a.ptr = last.ptr /\ ChunkOf(a).base # last.base
    /\ \E f \in Free : f.base <= last.base /\ last.acme <= FreeAcme(f)
    /\ IsAllocBase(last.acme)

\* where the tail that shrink releases from the chunk of a ends: at the end
\* of the free chunk above it, when there is one
TailAcme(a) ==
    IF FreeAbove(a) = {} THEN ChunkOf(a).acme
    ELSE FreeAcme(CHOOSE f \in FreeAbove(a) : TRUE)

\* C18: shrink(ptr, old_layout, new_size) computes new_req_acme =
\* max(align_up(ptr + new_size), chunk_base + MIN_CHUNK_SIZE) from new_size;
\* whenever chunk_acme - new_req_acme >= MIN_CHUNK_SIZE it registers the tail
\* that starts at new_req_acme, merged with a free upper neighbour, as a free
\* chunk, and the allocated chunk ends at new_req_acme after the call.
C18_ShrinkToNewSize ==
    \A a \in live, n \in ShrinkSizes :
        (n <= a.size /\ ChunkOf(a).acme - NewReqAcme(a, n) >= MIN_CHUNK_SIZE) =>
            /\ ChunkIn(shrink(Now, a.ptr, a.size, n), a.ptr).acme = NewReqAcme(a, n)
            /\ \E x \in FreeChunks(shrink(Now, a.ptr, a.size, n)) :
                  /\ x.base = NewReqAcme(a, n)
                  /\ x.base + x.size = TailAcme(a)

\* what C19 says of the state S that shrink(a, n) leaves
ShrinksInPlace(a, n, S) ==
    /\ ~S.ub
    /\ ChunkIn(S, a.ptr).base = ChunkOf(a).base
    /\ SameIndirection(a, S)
    /\ ChunkIn(S, a.ptr).base + TAG_SIZE <= a.ptr
    /\ a.ptr + n <= ChunkIn(S, a.ptr).acme
    /\ \A x \in FreeChunks(S) :
          ~Overlap(a.ptr, a.ptr + n, x.base, x.base + x.size)
    /\ \A k \in PayloadOffsets(n) : S.m[WordOf(a.ptr + k)] = mem[WordOf(a.ptr + k)]
    /\ ChunkOf(a).acme - NewReqAcme(a, n) < MIN_CHUNK_SIZE => Untouched(S)

\* C19: shrink never moves or invalidates the allocation: after
\* shrink(ptr, old_layout, new_size) the base of the chunk, the place of its
\* tag and its tag-indirection word are what they were, the chunk still
\* covers [ptr, ptr + new_size), the allocator has written no word of
\* [ptr, ptr + new_size), and when the releasable tail is smaller than
\* MIN_CHUNK_SIZE the whole heap state is unchanged.
C19_ShrinkInPlace ==
    \A a \in live, n \in ShrinkSizes :
        (0 < n /\ n <= a.size) =>
            ShrinksInPlace(a, n, shrink(Now, a.ptr, a.size, n))

\* shrink has just released the tail of a chunk whose tag does not sit in
\* the word below the pointer
C19_Witness ==
    /\ last.op = "shrink"
    /\ \E a \in live :
          /\ ChunkOf(a).base = last.base
          /\ ChunkOf(a).acme < last.acme
          /\ align_down(a.ptr - TAG_SIZE) # ChunkOf(a).base

\* the word-aligned interior of arena is too small for the tag of the
\* header chunk and the bin array
TooSmall(arena) ==
    word_align_inward(arena)[2] - word_align_inward(arena)[1] < TAG_SIZE + BIN_ARRAY_SIZE

\* the current state with no word of memory valid: any read or write of the
\* arena raises ub
NoMemory == St(talc, mem, FALSE, SpanEmpty)

\* C20: after init was given an arena whose word-aligned interior is too
\* small for the header tag and the bin array, the allocator is empty
\* (allocatable_base and allocatable_acme null, both availability words
\* zero), and every malloc runs the OOM handler and, the handler failing,
\* returns AllocError without reading or writing arena memory.
C20_SmallArena ==
    (talc.arena # SpanEmpty /\ TooSmall(talc.arena)) =>
        /\ talc.allocatable_base = NULL
        /\ talc.allocatable_acme = NULL
        /\ talc.availability_low = {}
        /\ talc.availability_high = {}
        /\ \A l \in Layouts :
              LET r == malloc(NoMemory, l[1], l[2])
              IN  /\ r.oom >= 1
                  /\ r.herr => (~r.ok /\ ~r.S.ub /\ r.S.m = mem /\ r.S.t = talc)

\* a malloc has just failed on an allocator that init left empty
C20_Witness ==
    /\ talc.arena # SpanEmpty
    /\ TooSmall(talc.arena)
    /\ last.op = "malloc"
    /\ ~last.ok
    /\ last.oom = 1

\* init was the last call and its arena has room for the header tag and the
\* bin array
InitHadRoom == last.op = "init" /\ ~TooSmall(talc.arena)

\* the space between the bin array and the acme of the arena init was given
InitTail == word_align_inward(talc.arena)[2] - (talc.bins + BIN_ARRAY_SIZE)

\* C21: for every arena whose word-aligned interior is at least the header
\* tag plus the bin array (the exact fit included), init carves an allocated
\* header chunk at the aligned base holding BIN_COUNT empty bins; a tail of
\* at least MIN_CHUNK_SIZE above the bin array is registered as one free chunk
\* with is_top_free set, a smaller tail is absorbed into the header chunk,
\* whose acme is then allocatable_acme, with is_top_free clear.
C21_InitCarves ==
    InitHadRoom =>
        /\ Initialized(Now)
        /\ talc.allocatable_base = word_align_inward(talc.arena)[1]
        /\ talc.allocatable_acme = word_align_inward(talc.arena)[2]
        /\ HeaderChunk.base = talc.allocatable_base
        /\ talc.bins = talc.allocatable_base + TAG_SIZE
        /\ TagIsAllocated(Rd(Now, HeaderChunk.base))
        /\ IF InitTail >= MIN_CHUNK_SIZE
           THEN /\ HeaderChunk.acme = talc.bins + BIN_ARRAY_SIZE
                /\ { <<c.base, c.size>> : c \in Free }
                      = { <<HeaderChunk.acme, InitTail>> }
                /\ \A b \in BinSet : BinHead(b) # NULL <=> b = bin_of_size(InitTail)
                /\ talc.is_top_free
           ELSE /\ HeaderChunk.acme = talc.allocatable_acme
                /\ Free = {}
                /\ \A b \in BinSet : BinHead(b) = NULL
                /\ ~talc.is_top_free

\* the arenas extend accepts in the current state
LargerArenas ==
    { B \in Arenas : /\ B # talc.arena
                     /\ SpanContainsSpan(B, talc.arena)
                     /\ ~SpanContains(B, NULL) }

\* the state after extend(B) has returned
Extended(B) ==
    LET S == extend(Cur(B), B)
    IN  [S EXCEPT !.m = Forget(S, live)]

\* truncate accepts new_arena in state S
TruncateAccepts(S, new_arena) ==
    /\ SpanContainsSpan(S.t.arena, new_arena)
    /\ SpanContainsSpan(word_align_inward(new_arena), get_allocated_span(S))

\* the state after extend(B) and then truncate(arena) have returned
RoundTrip(B, arena) ==
    LET S == truncate([Extended(B) EXCEPT !.lim = B], arena)
    IN  [S EXCEPT !.m = Forget(S, live)]

\* the allocation a is intact in S: its pointer leads to the same tag with
\* the same value, and no registered free chunk of S overlaps its chunk
Intact(S, a) ==
    LET now == chunk_ptr_from_alloc_ptr(Now, a.ptr)
        then == chunk_ptr_from_alloc_ptr(S, a.ptr)
    IN  /\ then = now
        /\ TagIsAllocated(then[2])
        /\ \A c \in FreeChunks(S) :
              ~Overlap(c.base, c.base + c.size, now[1], TagAcme(now[2]))

\* C22: from any reachable state with live allocations, extend to a larger
\* arena followed by truncate back to the original arena is accepted, leaves
\* every live allocation intact (same pointer, same chunk bounds and tag, not
\* covered by a free chunk) and leaves get_allocated_span() and get_arena()
\* as they were before the extend.
C22_ExtendTruncate ==
    (Running /\ live # {}) =>
        \A B \in LargerArenas :
            /\ TruncateAccepts(Extended(B), talc.arena)
            /\ ~RoundTrip(B, talc.arena).ub
            /\ \A a \in live : Intact(RoundTrip(B, talc.arena), a)
            /\ get_allocated_span(RoundTrip(B, talc.arena)) = get_allocated_span(Now)
            /\ RoundTrip(B, talc.arena).t.arena = talc.arena

\* an allocation is live, and an extend gives the heap a free chunk at its
\* top that the truncate back takes away again
C22_Witness ==
    /\ Running
    /\ live # {}
    /\ ~talc.is_top_free
    /\ \E B \in LargerArenas :
          /\ Extended(B).t.is_top_free
          /\ Extended(B).t.allocatable_acme > talc.allocatable_acme
          /\ ~RoundTrip(B, talc.arena).t.is_top_free
          /\ RoundTrip(B, talc.arena).t.allocatable_acme = talc.allocatable_acme

\* the smallest span containing every allocated chunk
AllocatedHull ==
    LET lo == CHOOSE c \in Allocated : \A d \in Allocated : c.base <= d.base
        hi == CHOOSE c \in Allocated : \A d \in Allocated : c.acme >= d.acme
    IN  <<lo.base, hi.acme>>

\* the allocatable span without its top chunk when that chunk is free and
\* without its bottom chunk when that chunk is free
AllocatableLessEnds ==
    LET top == { c \in Free : FreeAcme(c) = talc.allocatable_acme }
        bottom == { c \in Free : c.base = talc.allocatable_base }
    IN  << IF bottom = {} THEN talc.allocatable_base
           ELSE FreeAcme(CHOOSE c \in bottom : TRUE),
           IF talc.is_top_free /\ top # {} THEN (CHOOSE c \in top : TRUE).base
           ELSE talc.allocatable_acme >>

\* C23: in every reachable state get_allocated_span() is the smallest span
\* containing every allocated chunk (the header chunk and the live
\* allocations): the allocatable span minus the top free chunk when
\* is_top_free and minus the bottom free chunk when the bottom chunk is free;
\* it is empty on an uninitialized or empty allocator.
C23_AllocatedSpan ==
    Running =>
        IF Initialized(Now)
        THEN /\ ~TouchAllocatedSpan(Now).ub
             /\ get_allocated_span(Now) = AllocatableLessEnds
             /\ get_allocated_span(Now) = AllocatedHull
        ELSE get_allocated_span(Now) = SpanEmpty

\* C29: after every public operation returns, a second init and a
\* re-initialization with an arena too small for the bin array after an
\* earlier successful init included, the debug checks of scan_for_errors
\* hold: allocatable_acme >= allocatable_base, the arena contains the
\* allocatable span, and the bin-array pointer is non-null if and only if
\* allocatable_base and allocatable_acme are non-null.
C29_ScanForErrors == ~ub => scan_for_errors(Now)

\* the call left the allocator and the memory as they are now
Unmutated(S) == S.t = talc /\ S.m = mem /\ ~S.ub

\* the outcome r of a call panics exactly when its precondition is violated,
\* and then before anything was mutated
PanicsRight(r, violated) ==
    /\ r.panic <=> violated
    /\ r.panic => Unmutated(r.S)

\* a call that returned passes the assertions of scan_for_errors, which a
\* build with debug assertions runs before the call returns
ScanPasses(r) == ~r.panic => scan_for_errors(r.S)

\* the memory valid during extend(arena)
ExtendLim(arena) == IF SpanContainsSpan(arena, talc.arena) THEN arena ELSE talc.arena

\* init, extend and truncate called with arena panic on their assertions
\* exactly when the arena violates the precondition
AssertsRight(arena) ==
    /\ live = {} =>
          PanicsRight(InitCall(Cur(arena), arena), SpanContains(arena, NULL))
    /\ PanicsRight(ExtendCall(Cur(ExtendLim(arena)), arena),
                   ~SpanContainsSpan(arena, talc.arena) \/ SpanContains(arena, NULL))
    /\ PanicsRight(TruncateCall(Cur(talc.arena), arena),
                   \/ ~SpanContainsSpan(talc.arena, arena)
                   \/ ~SpanContainsSpan(arena, get_allocated_span(Now)))

\* init, extend and truncate called with arena do not panic on a debug
\* check when they are past their assertions
ScansPass(arena) ==
    /\ live = {} => ScanPasses(InitCall(Cur(arena), arena))
    /\ ScanPasses(ExtendCall(Cur(ExtendLim(arena)), arena))
    /\ ScanPasses(TruncateCall(Cur(talc.arena), arena))

\* C24: arena precondition violations always panic, before any heap state is
\* mutated: init with an arena containing null; extend with a new arena that
\* does not contain the current arena or contains null; truncate with a new
\* arena not contained in the current arena or not containing
\* get_allocated_span().  A call that satisfies the preconditions never
\* panics.
C24_ArenaPreconditions ==
    Running => \A arena \in Arenas : AssertsRight(arena) /\ ScansPass(arena)

\* [base, acme) is a registered free chunk of S
FreeIn(S, base, acme) ==
    \E c \in FreeChunks(S) : c.base = base /\ c.base + c.size = acme

\* the top end after extend has left S, the new aligned acme being acme; least
\* is the smallest gain that gets a chunk of its own
ExtendedTop(S, acme, least) ==
    IF talc.is_top_free
    THEN /\ S.t.allocatable_acme = acme
         /\ S.t.is_top_free
         /\ \E c \in Free : /\ FreeAcme(c) = talc.allocatable_acme
                            /\ FreeIn(S, c.base, acme)
    ELSE IF acme - talc.allocatable_acme >= least
    THEN /\ S.t.allocatable_acme = acme
         /\ S.t.is_top_free
         /\ FreeIn(S, talc.allocatable_acme, acme)
    ELSE /\ S.t.allocatable_acme = talc.allocatable_acme
         /\ ~S.t.is_top_free

\* the bottom end after extend has left S, the new aligned base being base
ExtendedBottom(S, base, least) ==
    IF IsFreeBase(talc.allocatable_base)
    THEN /\ S.t.allocatable_base = base
         /\ \E c \in Free : /\ c.base = talc.allocatable_base
                            /\ FreeIn(S, base, FreeAcme(c))
    ELSE IF talc.allocatable_base - base >= least
    THEN /\ S.t.allocatable_base = base
         /\ FreeIn(S, base, talc.allocatable_base)
         /\ TagIsBelowFree(Rd(S, talc.allocatable_base))
    ELSE /\ S.t.allocatable_base = talc.allocatable_base
         /\ ~TagIsBelowFree(Rd(S, talc.allocatable_base))

\* extend treats both ends as described, for every arena it accepts
ExtendsEnds(least) ==
    (Running /\ is_chunk_size(talc.allocatable_base, talc.allocatable_acme)) =>
        \A B \in LargerArenas :
            /\ ~Extended(B).ub
            /\ ExtendedTop(Extended(B), word_align_inward(B)[2], least)
            /\ ExtendedBottom(Extended(B), word_align_inward(B)[1], least)

\* C25: in extend on a non-empty allocator, at either end: a free end chunk
\* is re-registered extended to the new aligned bound; otherwise a gain of
\* at least MIN_CHUNK_SIZE (a gain of exactly MIN_CHUNK_SIZE included) is
\* registered as a fresh free chunk, with is_top_free set at the top or the
\* old bottom chunk's is_below_free set at the bottom; only a gain smaller
\* than MIN_CHUNK_SIZE is left out by keeping the old allocatable bound.
C25_ExtendEnds == ExtendsEnds(MIN_CHUNK_SIZE)

\* the arenas truncate accepts in the current state
SmallerArenas ==
    { A \in Arenas : ~TruncateCall(Cur(talc.arena), A).panic }

\* the state after truncate(A) has returned
Truncated(A) ==
    LET S == truncate(Cur(talc.arena), A)
    IN  [S EXCEPT !.m = Forget(S, live)]

\* the top end after truncate has left S, the new aligned acme being acme
TruncatedTop(S, acme) ==
    acme < talc.allocatable_acme =>
        \E c \in Free :
            /\ FreeAcme(c) = talc.allocatable_acme
            /\ acme - S.t.allocatable_acme < MIN_CHUNK_SIZE
            /\ \/ /\ S.t.allocatable_acme = acme
                  /\ S.t.is_top_free
                  /\ FreeIn(S, c.base, acme)
               \/ /\ S.t.allocatable_acme = c.base
                  /\ ~S.t.is_top_free
                  /\ \A d \in FreeChunks(S) : d.base + d.size <= c.base

\* the bottom end after truncate has left S, the new aligned base being base
TruncatedBottom(S, base) ==
    base > talc.allocatable_base =>
        \E c \in Free :
            /\ c.base = talc.allocatable_base
            /\ S.t.allocatable_base - base < MIN_CHUNK_SIZE
            /\ \/ /\ S.t.allocatable_base = base
                  /\ FreeIn(S, base, FreeAcme(c))
               \/ /\ S.t.allocatable_base = FreeAcme(c)
                  /\ TagIsAllocated(Rd(S, FreeAcme(c)))
                  /\ ~TagIsBelowFree(Rd(S, FreeAcme(c)))
                  /\ \A d \in FreeChunks(S) : d.base >= FreeAcme(c)

\* S has the allocated chunks of the current state, each with its tag; only
\* the is_below_free flag of the chunk that became the bottom chunk may differ
AllocatedKept(S) ==
    /\ AllocTagPtrs(S, live) = AllocTagPtrs(Now, live)
    /\ \A p \in AllocTagPtrs(Now, live) :
          \/ Rd(S, p) = Rd(Now, p)
          \/ /\ p = S.t.allocatable_base
             /\ p # talc.allocatable_base
             /\ Rd(S, p) = TagNew(TagAcme(Rd(Now, p)), FALSE)

\* C26: after truncate(new_arena) on an initialized allocator the allocatable
\* span is contained in the word-aligned new arena and falls short of it by
\* fewer than MIN_CHUNK_SIZE bytes at each trimmed end; at each trimmed end
\* the end free chunk is re-registered with the smaller size or dropped, and
\* when dropped is_top_free (top) or the new bottom chunk's is_below_free
\* (bottom) is cleared; no allocated chunk is altered.
C26_TruncateEnds ==
    (Running /\ Initialized(Now)) =>
        \A A \in SmallerArenas :
            /\ ~Truncated(A).ub
            /\ Initialized(Truncated(A))
            /\ SpanContainsSpan(word_align_inward(A),
                                <<Truncated(A).t.allocatable_base,
                                  Truncated(A).t.allocatable_acme>>)
            /\ TruncatedTop(Truncated(A), word_align_inward(A)[2])
            /\ TruncatedBottom(Truncated(A), word_align_inward(A)[1])
            /\ AllocatedKept(Truncated(A))

\* a truncate drops the free chunk at the bottom of a heap that holds a live
\* allocation, and clears the is_below_free flag of the chunk above it
C26_Witness ==
    /\ Running
    /\ live # {}
    /\ \E A \in SmallerArenas :
          /\ word_align_inward(A)[1] > talc.allocatable_base
          /\ Truncated(A).t.allocatable_base > talc.allocatable_base
          /\ TagIsBelowFree(Rd(Now, Truncated(A).t.allocatable_base))
          /\ ~TagIsBelowFree(Rd(Truncated(A), Truncated(A).t.allocatable_base))

\* the address of the word below the allocation a where its tag is looked up
PreAllocPtr(a) == align_down(a.ptr - TAG_SIZE)

\* the word at address p has been written by the allocator
Written(p) == IsWordAddr(p) /\ mem[WordOf(p)] >= 0

\* the word at tag_ptr is the tag of an allocated chunk that starts at
\* tag_ptr, holds the bytes of a, and shares no byte with a free chunk, with
\* the header chunk or with the chunk of another live allocation
IsTagOf(tag_ptr, a) ==
    /\ Written(tag_ptr)
    /\ TagIsAllocated(Rd(Now, tag_ptr))
    /\ tag_ptr <= PreAllocPtr(a)
    /\ a.ptr + a.size <= TagAcme(Rd(Now, tag_ptr))
    /\ talc.allocatable_base <= tag_ptr
    /\ TagAcme(Rd(Now, tag_ptr)) <= talc.allocatable_acme
    /\ \A c \in Free : ~Overlap(c.base, FreeAcme(c), tag_ptr, TagAcme(Rd(Now, tag_ptr)))
    /\ ~Overlap(HeaderChunk.base, HeaderChunk.acme, tag_ptr, TagAcme(Rd(Now, tag_ptr)))
    /\ \A b \in live \ {a} :
          ~Overlap(ChunkOf(b).base, ChunkOf(b).acme, tag_ptr, TagAcme(Rd(Now, tag_ptr)))

\* the word below a leads to the tag of the chunk of a
Recovers(a) ==
    /\ Written(PreAllocPtr(a))
    /\ IF Rd(Now, PreAllocPtr(a)) % 2 = 1
       THEN IsTagOf(PreAllocPtr(a), a)
       ELSE /\ Rd(Now, PreAllocPtr(a)) < PreAllocPtr(a)
            /\ IsTagOf(Rd(Now, PreAllocPtr(a)), a)

\* where malloc puts the tag of an allocation at alloc_base carved from the
\* free chunk c: lib.rs 223-233
TagPlace(c, alloc_base) ==
    LET pre_alloc_ptr == align_down(alloc_base - TAG_SIZE)
        tag_ptr == Min(c.base + c.size - MIN_CHUNK_SIZE, pre_alloc_ptr)
    IN  IF is_chunk_size(c.base, tag_ptr) THEN tag_ptr ELSE c.base

\* the last call was a malloc that found a chunk at once, and the word below
\* the pointer it returned is the tag when the tag is placed there and the
\* address of the tag when it is placed elsewhere
MallocWroteIndirection ==
    (last.op = "malloc" /\ last.ok /\ pre.valid) =>
        \E c \in pre.meta.free :
            /\ c.base < last.ptr
            /\ last.ptr < c.base + c.size
            /\ LET q == align_down(last.ptr - TAG_SIZE)
               IN  IF TagPlace(c, last.ptr) = q
                   THEN TagIsAllocated(Rd(Now, q))
                   ELSE Rd(Now, q) = TagPlace(c, last.ptr)

\* C27: for every live allocation pointer p, the word at
\* align_down(p - TAG_SIZE) recovers the chunk's metadata: either its low bit
\* is set and it is the chunk's tag, or its low bit is clear and it holds the
\* address of the chunk's tag, whose low bit is set and whose chunk contains
\* p; malloc writes the indirection word exactly when the tag is not placed at
\* align_down(p - TAG_SIZE).
C27_TagRecovery ==
    ~ub => /\ \A a \in live : Recovers(a)
           /\ MallocWroteIndirection

\* two live allocations, one found through its indirection word and one
\* through the tag right below it, after a grow or a shrink
C27_Witness ==
    /\ ~ub
    /\ last.op \in {"grow", "shrink"}
    /\ \E a \in live : Rd(Now, PreAllocPtr(a)) % 2 = 0
    /\ \E a \in live : Rd(Now, PreAllocPtr(a)) % 2 = 1

\* the bins at or above bin whose availability bit is set
AvailFrom(bin) == { b \in BinSet : b >= bin /\ AvailBit(b) }

\* C28: on a 64-bit word size, for every bitmap state and every b in
\* 0..BIN_COUNT, next_bin(b) returns the smallest bin index >= b whose
\* availability bit is set, or None if there is none (None for b =
\* BIN_COUNT), so the search of get_sufficient_chunk visits the non-empty bins
\* in strictly increasing order and terminates: it makes at most one call per
\* set bit and one more.
C28_NextBin ==
    search.calls > 0 =>
        /\ IF AvailFrom(search.bin) = {}
           THEN search.found = NoBin
           ELSE /\ search.found \in AvailFrom(search.bin)
                /\ \A b \in AvailFrom(search.bin) : search.found <= b
        /\ search.bin = BIN_COUNT => search.found = NoBin
        /\ search.found # NoBin => search.found > search.prev
        /\ search.calls <= Cardinality(AvailFrom(0)) + 1

\* a search has gone from a bin of the low availability word to a bin of the
\* high one and then found no further bin
C28_Witness ==
    /\ search.calls >= 3
    /\ search.prev >= WORD_BITS
    /\ search.found = NoBin
    /\ talc.availability_low # {}

\* the free chunks found in memory walking up from p to allocatable_acme: an
\* allocated tag leads to the acme it holds, any other written word starts a
\* free chunk whose size is the word above its list node; a word never
\* written belongs to no chunk
RECURSIVE MemoryFree(_, _)
MemoryFree(p, fuel) ==
    IF p >= talc.allocatable_acme \/ fuel = 0 THEN {}
    ELSE IF ~Written(p) THEN MemoryFree(p + WORD_SIZE, fuel - 1)
    ELSE IF TagIsAllocated(Rd(Now, p))
    THEN MemoryFree(Max(TagAcme(Rd(Now, p)), p + WORD_SIZE), fuel - 1)
    ELSE {[base |-> p, size |-> Rd(Now, size_ptr(p))]}
         \cup MemoryFree(p + Max(Rd(Now, size_ptr(p)), WORD_SIZE), fuel - 1)

\* the bins whose list is not empty
UsedBins == IF Initialized(Now) THEN { b \in BinSet : BinHead(b) # NULL } ELSE {}

\* <<node, bin>> for every node of every bin list
Linked ==
    UNION { { <<BinNodes(Now, b)[i], b>> : i \in 1..Len(BinNodes(Now, b)) } : b \in UsedBins }

\* no node occurs twice in the list of bin b
LinkedOnce(b) ==
    \A i \in 1..Len(BinNodes(Now, b)) : \A j \in 1..Len(BinNodes(Now, b)) :
        BinNodes(Now, b)[i] = BinNodes(Now, b)[j] => i = j

\* C30: after every public operation returns, every free chunk of the tiling
\* is linked in exactly one bin list, exactly once, and that bin is
\* bin_of_size(its size word); no bin list contains a node that lies inside
\* an allocated chunk or outside the allocatable span.  So every
\* deregister(node, bin_of_size(size)) names the bin that holds the node.
C30_BinMembership ==
    (~ub /\ Initialized(Now)) =>
        /\ { l[1] : l \in Linked }
              = { c.base : c \in MemoryFree(talc.allocatable_base, WordCount) }
        /\ \A b \in UsedBins : LinkedOnce(b)
        /\ \A l \in Linked : \A k \in Linked : l[1] = k[1] => l[2] = k[2]
        /\ \A l \in Linked :
              /\ l[2] = bin_of_size(Rd(Now, size_ptr(l[1])))
              /\ Rd(Now, size_ptr(l[1])) >= MIN_CHUNK_SIZE
              /\ talc.allocatable_base <= l[1]
              /\ l[1] + Rd(Now, size_ptr(l[1])) <= talc.allocatable_acme
              /\ \A c \in Allocated :
                    ~Overlap(c.base, c.acme, l[1], l[1] + Rd(Now, size_ptr(l[1])))

\* two free chunks are linked in the same bin while an allocation is live
C30_Witness ==
    /\ ~ub
    /\ live # {}
    /\ Cardinality(Linked) = 2
    /\ \E b \in UsedBins : Len(BinNodes(Now, b)) = 2

\* the words the bins of F are to have on target T: bin b is bit b of the low
\* word when b < T.bits, bit b - T.bits of the high word otherwise
PlacedLow(T, F) == { b \in F : b < T.bits }
PlacedHigh(T, F) == { b - T.bits : b \in { c \in F : c >= T.bits } }
Placed(T, A, F) == A.low = PlacedLow(T, F) /\ A.high = PlacedHigh(T, F)

\* the least bin of F at or above bin, NoBin when there is none
LeastFrom(F, bin) ==
    IF \E c \in F : c >= bin
    THEN CHOOSE c \in F : c >= bin /\ \A d \in F : d >= bin => c <= d
    ELSE NoBin

\* a call has returned with no shift amount at or above the word width
InWidth(r) == ~r.panic /\ ~r.over

\* the availability words are those of the non-empty bins, and so they are
\* after any set_avails and clear_avails; next_bin finds the least non-empty
\* bin at or above its argument
SplitConsistent ==
    /\ ~last.panic
    /\ Placed(bitmap, AvailNow, bitmap.heads)
    /\ \A b \in TriedBins(bitmap) \ bitmap.heads :
           /\ InWidth(set_avails_on(bitmap, AvailNow, b))
           /\ Placed(bitmap, set_avails_on(bitmap, AvailNow, b),
                     bitmap.heads \cup {b})
    /\ \A b \in bitmap.heads :
           /\ InWidth(clear_avails_on(bitmap, AvailNow, b))
           /\ Placed(bitmap, clear_avails_on(bitmap, AvailNow, b),
                     bitmap.heads \ {b})
    /\ \A bin \in TriedBins(bitmap) \cup {BinCountOn(bitmap)} :
           /\ InWidth(next_bin_on(bitmap, AvailNow, bin))
           /\ next_bin_on(bitmap, AvailNow, bin).found
                  = LeastFrom(bitmap.heads, bin)

\* C31: on every target, of 32 as of 64 bits, in a build of either profile,
\* set_avails, clear_avails and next_bin keep bin b in bit b of
\* availability_low when b < WORD_BITS and in bit b - WORD_BITS of
\* availability_high otherwise, no shift amount reaches WORD_BITS and no call
\* panics, and next_bin returns the least non-empty bin at or above its
\* argument (None when there is none)
C31_WidthSplit == SplitConsistent

====
